---------------------------- MODULE Spec2Model ----------------------------
(***************************************************************************)
(* Model of the devices of hw/arm/microbit.c.                              *)
(*                                                                         *)
(* The nRF51 timer: the MMIO handlers nrf51_timer_write and                *)
(* nrf51_timer_read, the tick callback nrf51_timer_tick and the tick       *)
(* source (ptimer) and interrupt line they drive.                          *)
(*                                                                         *)
(* The nRF51 GPIO controller and the LED matrix: the MMIO handlers         *)
(* nrf51_gpio_write and nrf51_gpio_read, the store nrf51_gpio_write_out    *)
(* makes to the LED matrix, and microbit_led_matrix_write, _read and       *)
(* _update_display.                                                        *)
(*                                                                         *)
(* The stub devices (RNG, NVMC, FICR, CLOCK/POWER) with their MMIO         *)
(* handlers, the timers at TIMER1_BASE and TIMER2_BASE, and the reset of   *)
(* the machine, which calls the reset handler of each device that has one. *)
(*                                                                         *)
(* A uint32_t is a record [hi, lo] of two 16-bit halves, since the masks   *)
(* 0xffffffff and the wrap of a 32-bit register do not fit the integers    *)
(* of the model checker.                                                   *)
(***************************************************************************)
EXTENDS Integers, Sequences, FiniteSets, TLC

(***************************************************************************)
(* Bounds of the model.                                                    *)
(***************************************************************************)
\* MMIO accesses the CPU issues in one behaviour.
MaxWrites == 2
\* Tick callbacks delivered in one behaviour.
MaxTicks == 3
\* Tick callbacks delivered in one behaviour in which the CPU also reads.
MaxReadTicks == 1
\* Accesses of the CPU to the GPIO controller in one behaviour.
MaxGpioAccesses == 3
\* Accesses to the LED matrix and display updates in one behaviour.
MaxLedAccesses == 4

(***************************************************************************)
(* 32-bit words.                                                           *)
(***************************************************************************)
Half == 65536

U32(h, l) == [hi |-> h, lo |-> l]

Zero32 == U32(0, 0)

\* x + 1 in uint32_t arithmetic (wraps at 2^32)
Inc32(x) ==
    IF x.lo = Half - 1
    THEN U32((x.hi + 1) % Half, 0)
    ELSE U32(x.hi, x.lo + 1)

RECURSIVE AndBits(_, _, _)
AndBits(a, b, n) ==
    IF n = 0 THEN 0
    ELSE (a % 2) * (b % 2) + 2 * AndBits(a \div 2, b \div 2, n - 1)

\* x & y
And32(x, y) == U32(AndBits(x.hi, y.hi, 16), AndBits(x.lo, y.lo, 16))

\* x <= y as unsigned 32-bit values
Le32(x, y) == x.hi < y.hi \/ (x.hi = y.hi /\ x.lo <= y.lo)

\* bit i (0..3) of a small mask
Bit(m, i) == (m \div (2 ^ i)) % 2

\* value & 1
Bit0(value) == value.lo % 2

(***************************************************************************)
(* Register offsets of the timer.                                          *)
(***************************************************************************)
NRF51_TIMER_START == 0
NRF51_TIMER_STOP == 4
NRF51_TIMER_COUNT == 8
NRF51_TIMER_CLEAR == 12
NRF51_TIMER_SHUTDOWN == 16
NRF51_TIMER_CAPTURE0 == 64
NRF51_TIMER_CAPTURE1 == 68
NRF51_TIMER_CAPTURE2 == 72
NRF51_TIMER_CAPTURE3 == 76
NRF51_TIMER_COMPARE0 == 320
NRF51_TIMER_COMPARE1 == 324
NRF51_TIMER_COMPARE2 == 328
NRF51_TIMER_COMPARE3 == 332
NRF51_TIMER_SHORTS == 512
NRF51_TIMER_INTENSET == 772
NRF51_TIMER_INTENCLR == 776
NRF51_TIMER_MODE == 1284
NRF51_TIMER_BITMODE == 1288
NRF51_TIMER_PRESCALER == 1296
NRF51_TIMER_CC0 == 1344
NRF51_TIMER_CC1 == 1348
NRF51_TIMER_CC2 == 1352
NRF51_TIMER_CC3 == 1356

\* an offset of the timer's region that no case of the handlers names
TIMER_BAD_OFFSET == 256

NRF51_TIMER_BASE_FREQ == 16777216

CaptureOffsets ==
    {NRF51_TIMER_CAPTURE0, NRF51_TIMER_CAPTURE1,
     NRF51_TIMER_CAPTURE2, NRF51_TIMER_CAPTURE3}

CompareOffsets ==
    {NRF51_TIMER_COMPARE0, NRF51_TIMER_COMPARE1,
     NRF51_TIMER_COMPARE2, NRF51_TIMER_COMPARE3}

CCOffsets ==
    {NRF51_TIMER_CC0, NRF51_TIMER_CC1, NRF51_TIMER_CC2, NRF51_TIMER_CC3}

\* (offset >> 2) & 3
ChannelOf(offset) == (offset \div 4) % 4

Channels == 0 .. 3

(***************************************************************************)
(* The state of the machine: the timer at TIMER0_BASE (s, timer, irq), the  *)
(* timers at TIMER1_BASE and TIMER2_BASE, the GPIO controller, the LED     *)
(* matrix and the stub devices.                                            *)
(***************************************************************************)
VARIABLES
    s,        \* NRF51TimerState: the fields of the device
    timer,    \* the tick source behind s->timer
    irq,      \* the level of the interrupt line s->irq
    calls,    \* the calls the last handler made on the tick source and the line
    last,     \* the last handler that ran, with its arguments
    pre,      \* the device and the tick source as the last handler found them
    hist,     \* what the CPU last asked of START, STOP, SHUTDOWN and COMPARE
    rd,       \* the CPU's read of a register, when it was the last handler
    nwrites,  \* MMIO accesses of the CPU so far
    nticks,   \* tick callbacks so far
    gpio,     \* NRF51GPIOState: the fields of the GPIO controller
    led,      \* MICROBITLedMatrixState: the frame and the redraw events
    io,       \* the last access to the GPIO, the LED matrix or a stub device,
              \* and the one before it
    stub,     \* the states of the RNG, the NVMC, the FICR and the CLOCK/POWER
    peers     \* the timers at TIMER1_BASE and TIMER2_BASE: for each its
              \* device, tick source and interrupt line

vars ==
    <<s, timer, irq, calls, last, pre, hist, rd, nwrites, nticks,
      gpio, led, io, stub, peers>>

\* the device after object allocation (zeroed) and realize
NRF51TimerState ==
    [pulsed |-> FALSE,
     inten |-> 0,
     limit_mask |-> Zero32,
     freq |-> NRF51_TIMER_BASE_FREQ,
     start |-> Zero32,
     stop |-> Zero32,
     count |-> Zero32,
     clear |-> Zero32,
     shutdown |-> Zero32,
     capture |-> [i \in Channels |-> Zero32],
     compare |-> [i \in Channels |-> Zero32],
     shorts |-> Zero32,
     intenset |-> Zero32,
     intenclr |-> Zero32,
     mode |-> 0,
     bitmode |-> 0,
     prescaler |-> 0,
     cc |-> [i \in Channels |-> Zero32],
     internal_counter |-> Zero32]

(***************************************************************************)
(* The tick source: a periodic source with a frequency and a reload value  *)
(* that invokes the registered callback while it is started.               *)
(***************************************************************************)
ptimer_init == [enabled |-> FALSE, freq |-> 0, limit |-> Zero32]

ptimer_set_freq(t, freq) == [t EXCEPT !.freq = freq]

ptimer_set_limit(t, limit, reload) == [t EXCEPT !.limit = limit]

ptimer_run(t, oneshot) == [t EXCEPT !.enabled = TRUE]

ptimer_stop(t) == [t EXCEPT !.enabled = FALSE]

\* a call on the tick source or on the interrupt line, as the handlers make it
Call(fn, arg) == [fn |-> fn, arg |-> arg]

\* A handler runs on the bundle m = [s, timer, irq, calls].
Made(m, fn, arg) == [m EXCEPT !.calls = Append(@, Call(fn, arg))]

\* qemu_irq_pulse: raise the line, then lower it
qemu_irq_pulse(m, ch) == [Made(m, "qemu_irq_pulse", ch) EXCEPT !.irq = 0]

\* qemu_irq_raise
qemu_irq_raise(m, ch) == [Made(m, "qemu_irq_raise", ch) EXCEPT !.irq = 1]

\* qemu_irq_lower
qemu_irq_lower(m, ch) == [Made(m, "qemu_irq_lower", ch) EXCEPT !.irq = 0]


(***************************************************************************)
(* nrf51_timer_recalibrate and the cases of nrf51_timer_write.             *)
(***************************************************************************)
\* the reload value handed to the tick source
recalibrate_limit(st) == IF st.mode % 2 = 1 THEN st.count ELSE Zero32

nrf51_timer_recalibrate(m, reload) ==
    [Made(m, "ptimer_set_limit", reload)
        EXCEPT !.timer = ptimer_set_limit(@, recalibrate_limit(m.s), reload)]

\* the switch on s->bitmode of the START case
start_limit_mask(bitmode) ==
    CASE bitmode = 0 -> U32(0, 65535)
      [] bitmode = 1 -> U32(0, 255)
      [] bitmode = 2 -> U32(255, 65535)
      [] bitmode = 3 -> U32(65535, 65535)

\* START that reloads the tick source also when it resumes
start_resume_reload(m) ==
    nrf51_timer_recalibrate([m EXCEPT !.s.pulsed = FALSE], 1)

\* if (s->pulsed) s->pulsed = false; else nrf51_timer_recalibrate(s, 1);
start_resume(m) ==
    IF m.s.pulsed
    THEN [m EXCEPT !.s.pulsed = FALSE]
    ELSE nrf51_timer_recalibrate(m, 1)

write_START(m, value) ==
    IF Bit0(value) = 1
    THEN LET m1 == [Made(m, "ptimer_set_freq", m.s.freq)
                       EXCEPT !.timer = ptimer_set_freq(@, m.s.freq)]
             m2 == [m1 EXCEPT !.s.limit_mask = start_limit_mask(m.s.bitmode)]
             m3 == start_resume(m2)
         IN  [Made(m3, "ptimer_run", 0) EXCEPT !.timer = ptimer_run(@, 0)]
    ELSE m

\* STOP that marks the pause but leaves the tick source running
write_STOP_running(m, value) ==
    IF Bit0(value) = 1 THEN [m EXCEPT !.s.pulsed = TRUE] ELSE m

write_STOP(m, value) ==
    IF Bit0(value) = 1
    THEN [Made(m, "ptimer_stop", 0)
             EXCEPT !.timer = ptimer_stop(@), !.s.pulsed = TRUE]
    ELSE m

\* COUNT with the test of the mode inverted
write_COUNT_timer_mode(m, value) ==
    IF m.s.mode % 2 = 0
    THEN nrf51_timer_recalibrate([m EXCEPT !.s.count = value], 1)
    ELSE m

\* COUNT that also restarts the counter from 0
write_COUNT_restart(m, value) ==
    IF m.s.mode % 2 = 1
    THEN nrf51_timer_recalibrate(
            [m EXCEPT !.s.count = value, !.s.internal_counter = Zero32], 1)
    ELSE m

write_COUNT(m, value) ==
    IF m.s.mode % 2 = 1
    THEN nrf51_timer_recalibrate([m EXCEPT !.s.count = value], 1)
    ELSE m

\* CLEAR that also forgets a pause, as SHUTDOWN does
write_CLEAR_unpause(m, value) ==
    IF Bit0(value) = 1
    THEN nrf51_timer_recalibrate(
             [m EXCEPT !.s.internal_counter = Zero32, !.s.pulsed = FALSE], 1)
    ELSE m

write_CLEAR(m, value) ==
    IF Bit0(value) = 1
    THEN nrf51_timer_recalibrate([m EXCEPT !.s.internal_counter = Zero32], 1)
    ELSE m

\* SHUTDOWN that leaves pulsed as it was
write_SHUTDOWN_pulsed(m, value) ==
    IF Bit0(value) = 1
    THEN LET m1 == [Made(m, "ptimer_stop", 0) EXCEPT !.timer = ptimer_stop(@)]
             m2 == [m1 EXCEPT !.s.internal_counter = Zero32]
         IN  nrf51_timer_recalibrate(m2, 1)
    ELSE m

write_SHUTDOWN(m, value) ==
    IF Bit0(value) = 1
    THEN LET m1 == [Made(m, "ptimer_stop", 0) EXCEPT !.timer = ptimer_stop(@)]
             m2 == [m1 EXCEPT !.s.internal_counter = Zero32]
             m3 == nrf51_timer_recalibrate(m2, 1)
         IN  [m3 EXCEPT !.s.pulsed = FALSE]
    ELSE m

\* CAPTURE storing the written value
write_CAPTURE_value(m, offset, value) ==
    [m EXCEPT !.s.cc[ChannelOf(offset)] = value]

\* s->cc[idx] = s->internal_counter
write_CAPTURE(m, offset, value) ==
    [m EXCEPT !.s.cc[ChannelOf(offset)] = m.s.internal_counter]

\* COMPARE storing the value in channel 0 whatever the offset
write_COMPARE_first(m, offset, value) ==
    [m EXCEPT !.s.compare[0] = value]

\* s->compare[idx] = value
write_COMPARE(m, offset, value) ==
    [m EXCEPT !.s.compare[ChannelOf(offset)] = value]

\* a 4-bit mask from its bits
Mask4(b0, b1, b2, b3) == b0 + 2 * b1 + 4 * b2 + 8 * b3

\* a | b on 4-bit masks
Or4(a, b) ==
    LET or(i) == IF Bit(a, i) = 1 \/ Bit(b, i) = 1 THEN 1 ELSE 0
    IN  Mask4(or(0), or(1), or(2), or(3))

\* a & b on 4-bit masks
And4(a, b) ==
    Mask4(Bit(a, 0) * Bit(b, 0), Bit(a, 1) * Bit(b, 1),
          Bit(a, 2) * Bit(b, 2), Bit(a, 3) * Bit(b, 3))

\* (~x) & 0xf
Not4(x) == 15 - (x % 16)

\* INTENSET taking the channel bits from bits 0..3 of the value
write_INTENSET_low(m, value) ==
    [m EXCEPT !.s.inten = Or4(@, value.lo % 16)]

\* s->inten |= (value >> 16) & 0xf
write_INTENSET(m, value) ==
    [m EXCEPT !.s.inten = Or4(@, value.hi % 16)]

\* INTENCLR keeping the channels named instead of clearing them
write_INTENCLR_keep(m, value) ==
    [m EXCEPT !.s.inten = And4(@, value.hi % 16)]

\* s->inten &= (~(value >> 16)) & 0xf
write_INTENCLR(m, value) ==
    [m EXCEPT !.s.inten = And4(@, Not4(value.hi))]

write_MODE(m, value) ==
    nrf51_timer_recalibrate([m EXCEPT !.s.mode = value.lo % 2], 1)

\* BITMODE re-deriving limit_mask at once
write_BITMODE_rederive(m, value) ==
    [m EXCEPT !.s.bitmode = value.lo % 4,
              !.s.limit_mask = start_limit_mask(value.lo % 4)]

\* s->bitmode = value & 0x3
write_BITMODE(m, value) == [m EXCEPT !.s.bitmode = value.lo % 4]

\* PRESCALER keeping three bits of the value
write_PRESCALER_3bit(m, value) ==
    nrf51_timer_recalibrate([m EXCEPT !.s.prescaler = value.lo % 8], 1)

\* s->prescaler = value & 0xf; nrf51_timer_recalibrate(s, 1);
write_PRESCALER(m, value) ==
    nrf51_timer_recalibrate([m EXCEPT !.s.prescaler = value.lo % 16], 1)

write_CC(m, offset, value) ==
    [m EXCEPT !.s.cc[ChannelOf(offset)] = value]

nrf51_timer_write(m, offset, value) ==
    CASE offset = NRF51_TIMER_START -> write_START(m, value)
      [] offset = NRF51_TIMER_STOP -> write_STOP(m, value)
      [] offset = NRF51_TIMER_COUNT -> write_COUNT(m, value)
      [] offset = NRF51_TIMER_CLEAR -> write_CLEAR(m, value)
      [] offset = NRF51_TIMER_SHUTDOWN -> write_SHUTDOWN(m, value)
      [] offset \in CaptureOffsets -> write_CAPTURE(m, offset, value)
      [] offset \in CompareOffsets -> write_COMPARE(m, offset, value)
      [] offset = NRF51_TIMER_SHORTS -> m
      [] offset = NRF51_TIMER_INTENSET -> write_INTENSET(m, value)
      [] offset = NRF51_TIMER_INTENCLR -> write_INTENCLR(m, value)
      [] offset = NRF51_TIMER_MODE -> write_MODE(m, value)
      [] offset = NRF51_TIMER_BITMODE -> write_BITMODE(m, value)
      [] offset = NRF51_TIMER_PRESCALER -> write_PRESCALER(m, value)
      [] offset \in CCOffsets -> write_CC(m, offset, value)
      [] OTHER -> m

(***************************************************************************)
(* nrf51_timer_read                                                        *)
(***************************************************************************)
nrf51_timer_read(st, offset) ==
    CASE offset = NRF51_TIMER_START -> st.start
      [] offset = NRF51_TIMER_STOP -> st.stop
      [] offset = NRF51_TIMER_COUNT -> st.count
      [] offset = NRF51_TIMER_CLEAR -> st.clear
      [] offset = NRF51_TIMER_SHUTDOWN -> st.shutdown
      [] offset \in CaptureOffsets -> st.capture[ChannelOf(offset)]
      [] offset \in CompareOffsets -> st.compare[ChannelOf(offset)]
      [] offset = NRF51_TIMER_SHORTS -> st.shorts
      [] offset = NRF51_TIMER_INTENSET -> Zero32
      [] offset = NRF51_TIMER_INTENCLR -> Zero32
      [] offset = NRF51_TIMER_MODE -> U32(0, st.mode)
      [] offset = NRF51_TIMER_BITMODE -> U32(0, st.bitmode)
      [] offset = NRF51_TIMER_PRESCALER -> U32(0, st.prescaler)
      [] offset \in CCOffsets -> st.cc[ChannelOf(offset)]
      [] OTHER -> Zero32

(***************************************************************************)
(* nrf51_timer_tick                                                        *)
(***************************************************************************)
\* the increment without the mask
tick_advance_unmasked(st) == Inc32(st.internal_counter)

\* the increment masked to 16 bits whatever the bitmode
tick_advance_16bit(st) == And32(Inc32(st.internal_counter), U32(0, 65535))

\* s->internal_counter = (s->internal_counter + 1) & s->limit_mask
tick_advance(st) == And32(Inc32(st.internal_counter), st.limit_mask)

\* counter mode with the reset of the counter left out
tick_counter_noreset(m) ==
    IF m.s.internal_counter = m.s.count
    THEN qemu_irq_pulse(m, -1)
    ELSE qemu_irq_lower(m, -1)

\* counter mode: the branch on internal_counter == count
tick_counter(m) ==
    IF m.s.internal_counter = m.s.count
    THEN qemu_irq_pulse([m EXCEPT !.s.internal_counter = Zero32], -1)
    ELSE qemu_irq_lower(m, -1)

\* one round of the loop with the test of the inten bit left out
tick_channel_always(m, i) ==
    IF m.s.cc[i] = m.s.internal_counter
    THEN qemu_irq_pulse([m EXCEPT !.s.compare[i] = Inc32(@)], i)
    ELSE qemu_irq_lower(m, i)

\* one round of the loop where a match sets the latch to 1 instead of counting
tick_channel_flag(m, i) ==
    IF Bit(m.s.inten, i) = 1
    THEN IF m.s.cc[i] = m.s.internal_counter
         THEN qemu_irq_pulse([m EXCEPT !.s.compare[i] = U32(0, 1)], i)
         ELSE qemu_irq_lower(m, i)
    ELSE m

\* one round of the loop where a match raises the line and leaves it raised
tick_channel_raise(m, i) ==
    IF Bit(m.s.inten, i) = 1
    THEN IF m.s.cc[i] = m.s.internal_counter
         THEN qemu_irq_raise([m EXCEPT !.s.compare[i] = Inc32(@)], i)
         ELSE qemu_irq_lower(m, i)
    ELSE m

\* one round of the loop where a match also disarms the channel: cc[i] = 0
tick_channel_oneshot(m, i) ==
    IF Bit(m.s.inten, i) = 1
    THEN IF m.s.cc[i] = m.s.internal_counter
         THEN qemu_irq_pulse([m EXCEPT !.s.compare[i] = Inc32(@),
                                       !.s.cc[i] = Zero32], i)
         ELSE qemu_irq_lower(m, i)
    ELSE m

\* timer mode: one round of the loop over the channels
tick_channel(m, i) ==
    IF Bit(m.s.inten, i) = 1
    THEN IF m.s.cc[i] = m.s.internal_counter
         THEN qemu_irq_pulse([m EXCEPT !.s.compare[i] = Inc32(@)], i)
         ELSE qemu_irq_lower(m, i)
    ELSE m

RECURSIVE tick_loop(_, _)
tick_loop(m, i) ==
    IF i < 4 THEN tick_loop(tick_channel(m, i), i + 1) ELSE m

nrf51_timer_tick(m) ==
    LET m1 == [m EXCEPT !.s.internal_counter = tick_advance(m.s)]
    IN  IF m1.s.mode = 1 THEN tick_counter(m1) ELSE tick_loop(m1, 0)


(***************************************************************************)
(* Bit operations on words and on the 25-bit frame.                        *)
(***************************************************************************)
RECURSIVE OrBits(_, _, _)
OrBits(a, b, n) ==
    IF n = 0 THEN 0
    ELSE (IF a % 2 = 1 \/ b % 2 = 1 THEN 1 ELSE 0)
         + 2 * OrBits(a \div 2, b \div 2, n - 1)

\* a & ~b on n bits
RECURSIVE ClearBits(_, _, _)
ClearBits(a, b, n) ==
    IF n = 0 THEN 0
    ELSE (a % 2) * (1 - (b % 2)) + 2 * ClearBits(a \div 2, b \div 2, n - 1)

\* x | y
Or32(x, y) == U32(OrBits(x.hi, y.hi, 16), OrBits(x.lo, y.lo, 16))

\* ~x
Not32(x) == U32(Half - 1 - x.hi, Half - 1 - x.lo)

\* bit p (0..31) of x
BitAt(x, p) == IF p < 16 THEN Bit(x.lo, p) ELSE Bit(x.hi, p - 16)

\* b << p for a bit b and p in 0..31
BitShl(b, p) ==
    IF p < 16 THEN U32(0, b * (2 ^ p)) ELSE U32(b * (2 ^ (p - 16)), 0)

\* a uint32_t below 2^31 handed on as a word
FromNat(n) == U32(n \div Half, n % Half)

(***************************************************************************)
(* The LED matrix: microbit_led_matrix_read, microbit_led_matrix_write and *)
(* the display update.                                                     *)
(***************************************************************************)
MICROBIT_LED_MAP_MASK == 33554431
MICROBIT_LED_EVENT_NONE == 0
MICROBIT_LED_EVENT_FRONT == 1
MICROBIT_LED_EVENT_BACK == 2
LED_BASE == 1073872896

\* the device after realize and reset
MICROBITLedMatrixState ==
    [led_state |-> 0,
     led_event |-> MICROBIT_LED_EVENT_BACK + MICROBIT_LED_EVENT_FRONT]

Point(px, py) == [x |-> px, y |-> py]

\* matrix_map[row + 3 * col], counted from 1 here
matrix_map ==
    << Point(0, 0), Point(4, 2), Point(2, 4),
       Point(2, 0), Point(0, 2), Point(4, 4),
       Point(4, 0), Point(2, 2), Point(0, 4),
       Point(4, 3), Point(1, 0), Point(0, 1),
       Point(3, 3), Point(3, 0), Point(1, 1),
       Point(2, 3), Point(3, 4), Point(2, 1),
       Point(1, 3), Point(1, 4), Point(3, 1),
       Point(0, 3), Point(5, 5), Point(4, 1),
       Point(1, 2), Point(5, 5), Point(3, 2) >>

\* (val >> 13) & 7
led_row_bits(val) == (val.lo \div 8192) % 8

\* the column bits taken as active-high
led_col_bits_high(val) == (val.lo \div 16) % 512

\* (~(val >> 4)) & 0x1FF
led_col_bits(val) == 511 - ((val.lo \div 16) % 512)

\* the switch on row_bits taking every value that is not 2 or 4 as row 0
led_row_lenient(row_bits) ==
    CASE row_bits = 2 -> 1
      [] row_bits = 4 -> 2
      [] OTHER -> 0

\* the switch on row_bits: the row, or -1 where the handler returns
led_row(row_bits) ==
    CASE row_bits = 1 -> 0
      [] row_bits = 2 -> 1
      [] row_bits = 4 -> 2
      [] OTHER -> -1

led_clear_bits(row) ==
    CASE row = 0 -> 1017877      \* 0x000f8815
      [] row = 1 -> 10507274     \* 0x00a0540a
      [] row = 2 -> 22029280     \* 0x015023e0

\* the index taken as if the table listed each row's nine columns in turn
led_index_by_row(row, col) == row * 9 + col

\* index = row + col * 3
led_index(row, col) == row + col * 3

\* 1 << (matrix_map[index].x + matrix_map[index].y * 5)
led_bit(index) ==
    2 ^ (matrix_map[index + 1].x + matrix_map[index + 1].y * 5)

\* for (col = 0; col < 9; col++): led_bits from column col on
RECURSIVE led_loop(_, _, _, _)
led_loop(row, col_bits, col, led_bits) ==
    IF col = 9 THEN led_bits
    ELSE IF row = 1 /\ (col = 8 \/ col = 9)
    THEN led_loop(row, col_bits, col + 1, led_bits)
    ELSE IF Bit(col_bits, col) = 1
    THEN led_loop(row, col_bits, col + 1,
                  OrBits(led_bits, led_bit(led_index(row, col)), 32))
    ELSE led_loop(row, col_bits, col + 1, led_bits)

\* the frame made of the new row alone: led_state = led_bits & MAP_MASK
led_frame_overwrite(old, row, col_bits) ==
    AndBits(led_loop(row, col_bits, 0, 0), MICROBIT_LED_MAP_MASK, 32)

\* led_state &= ~clear_bits; led_state |= led_bits; led_state &= MAP_MASK
led_frame(old, row, col_bits) ==
    AndBits(OrBits(ClearBits(old, led_clear_bits(row), 32),
                   led_loop(row, col_bits, 0, 0), 32),
            MICROBIT_LED_MAP_MASK, 32)

microbit_led_matrix_write(st, val) ==
    LET row == led_row(led_row_bits(val))
    IN  IF row = -1 THEN st
        ELSE [led_state |-> led_frame(st.led_state, row, led_col_bits(val)),
              led_event |->
                  MICROBIT_LED_EVENT_BACK + MICROBIT_LED_EVENT_FRONT]

\* a read that asks for the foreground to be redrawn only
led_read_front(st) == [st EXCEPT !.led_event = MICROBIT_LED_EVENT_FRONT]

\* the device after microbit_led_matrix_read
led_read(st) ==
    [st EXCEPT !.led_event =
                   MICROBIT_LED_EVENT_BACK + MICROBIT_LED_EVENT_FRONT]

\* the value microbit_led_matrix_read returns
microbit_led_matrix_read(st) == FromNat(st.led_state)

\* microbit_led_matrix_reset: the frame cleared, both layers to be redrawn
microbit_led_matrix_reset(st) ==
    [st EXCEPT !.led_state = 0,
               !.led_event =
                   MICROBIT_LED_EVENT_BACK + MICROBIT_LED_EVENT_FRONT]

\* the end of microbit_led_matrix_update_display
microbit_led_matrix_update_display(st) ==
    [st EXCEPT !.led_event = MICROBIT_LED_EVENT_NONE]


(***************************************************************************)
(* The GPIO controller: nrf51_gpio_read, nrf51_gpio_write and the store to *)
(* the LED matrix that an output write makes.                              *)
(***************************************************************************)
NRF51_GPIO_OUT == 1284
NRF51_GPIO_OUTSET == 1288
NRF51_GPIO_OUTCLR == 1292
NRF51_GPIO_IN == 1296
NRF51_GPIO_DIR == 1300
NRF51_GPIO_DIRSET == 1304
NRF51_GPIO_DIRCLR == 1308
NRF51_GPIO_PIN_CNF0 == 1792
NRF51_GPIO_PIN_CNF31 == 1916
GPIO_BAD_OFFSET == 0

PIN_CNF_DIR_IN == 0
PIN_CNF_DIR_OUT == 1

Pins == 0 .. 31

\* NRF51_GPIO_PIN_CNF0 .. NRF51_GPIO_PIN_CNF31
PinCnfOffsets == {NRF51_GPIO_PIN_CNF0 + 4 * n : n \in Pins}

OutOffsets == {NRF51_GPIO_OUT, NRF51_GPIO_OUTSET, NRF51_GPIO_OUTCLR}

DirOffsets == {NRF51_GPIO_DIR, NRF51_GPIO_DIRSET, NRF51_GPIO_DIRCLR}

\* (offset >> 2) & 0x1f
PinOf(offset) == (offset \div 4) % 32

NRF51GPIOPin == [dir |-> 0, input |-> 0, pull |-> 0, drive |-> 0, sense |-> 0]

\* the device after object allocation (zeroed), with its properties at 0
NRF51GPIOState ==
    [pin |-> [i \in Pins |-> NRF51GPIOPin],
     out |-> Zero32,
     in |-> Zero32,
     dir |-> Zero32]

\* A GPIO handler runs on the bundle g = [gpio, led, stores]: the two
\* devices and the stores made to the physical address space.
nrf51_gpio_pin_cnf_write(p, cnf) ==
    [dir |-> cnf.lo % 2,
     input |-> (cnf.lo \div 2) % 2,
     pull |-> (cnf.lo \div 4) % 4,
     drive |-> (cnf.lo \div 256) % 8,
     sense |-> cnf.hi % 4]

nrf51_gpio_pin_cnf_read(p) ==
    U32(p.sense, p.dir + 2 * p.input + 4 * p.pull + 256 * p.drive)

\* if (s->dir & (1 << i)) pin[i].dir = PIN_CNF_DIR_IN;
\* else pin[i].dir = PIN_CNF_DIR_OUT;
pin_dir_of_bit(bit) ==
    IF bit = 1 THEN PIN_CNF_DIR_IN ELSE PIN_CNF_DIR_OUT

\* 1 << 31 is the sign bit of the int, so that bit 31 of dir is tested like
\* the others
nrf51_gpio_pin_dir_update(st) ==
    [st EXCEPT !.pin =
        [i \in Pins |->
            [st.pin[i] EXCEPT !.dir = pin_dir_of_bit(BitAt(st.dir, i))]]]

\* a 16-bit store to the physical address space: the LED matrix, mapped at
\* LED_BASE, takes it as a write of the 16 bits
stw_phys(g, addr, val) ==
    LET g1 == [g EXCEPT !.stores = Append(@, [addr |-> addr, val |-> val])]
    IN  IF addr = LED_BASE
        THEN [g1 EXCEPT !.led = microbit_led_matrix_write(@, U32(0, val.lo))]
        ELSE g1

\* the row bits alone
LedBusRows == U32(0, 57344)

\* the bits of the latch that go to the LED matrix
LedBusMask == U32(0, 65520)

\* write_out that leaves the latch as it is
nrf51_gpio_write_out_keep(g) ==
    IF And32(g.gpio.out, LedBusMask) # Zero32
    THEN stw_phys(g, LED_BASE, And32(g.gpio.out, LedBusMask))
    ELSE g

\* write_out that stores the latch whatever its bits
nrf51_gpio_write_out_always(g) ==
    [stw_phys(g, LED_BASE, And32(g.gpio.out, LedBusMask))
        EXCEPT !.gpio.out = Zero32]

\* write_out that stores the latch with the row bits masked off
nrf51_gpio_write_out_columns(g) ==
    LET g1 == IF And32(g.gpio.out, LedBusMask) # Zero32
              THEN stw_phys(g, LED_BASE, And32(g.gpio.out, U32(0, 8176)))
              ELSE g
    IN  [g1 EXCEPT !.gpio.out = Zero32]

\* if (s->out & 0x0000FFF0) stw_phys(as, 0x40020000, s->out & 0x0000FFF0);
\* s->out = 0;
nrf51_gpio_write_out(g) ==
    LET g1 == IF And32(g.gpio.out, LedBusMask) # Zero32
              THEN stw_phys(g, LED_BASE, And32(g.gpio.out, LedBusMask))
              ELSE g
    IN  [g1 EXCEPT !.gpio.out = Zero32]

\* OUT that takes the value whatever dir is
gpio_OUT_unmasked(g, value) ==
    nrf51_gpio_write_out([g EXCEPT !.gpio.out = value])

\* s->out = value & s->dir
gpio_OUT(g, value) ==
    nrf51_gpio_write_out([g EXCEPT !.gpio.out = And32(value, g.gpio.dir)])

\* s->out |= value & s->dir
gpio_OUTSET(g, value) ==
    nrf51_gpio_write_out(
        [g EXCEPT !.gpio.out = Or32(@, And32(value, g.gpio.dir))])

\* OUTCLR that drives every output pin the value does not name:
\* s->out = ~value & s->dir
gpio_OUTCLR_dir(g, value) ==
    nrf51_gpio_write_out(
        [g EXCEPT !.gpio.out = And32(Not32(value), g.gpio.dir)])

\* s->out &= ~((uint32_t)value) & s->dir
gpio_OUTCLR(g, value) ==
    nrf51_gpio_write_out(
        [g EXCEPT !.gpio.out = And32(@, And32(Not32(value), g.gpio.dir))])

gpio_DIR(g, value) ==
    [g EXCEPT !.gpio = nrf51_gpio_pin_dir_update([@ EXCEPT !.dir = value])]

gpio_DIRSET(g, value) ==
    [g EXCEPT !.gpio =
        nrf51_gpio_pin_dir_update([@ EXCEPT !.dir = Or32(@, value)])]

gpio_DIRCLR(g, value) ==
    [g EXCEPT !.gpio =
        nrf51_gpio_pin_dir_update([@ EXCEPT !.dir = And32(@, Not32(value))])]

\* s->dir |= (value & 1) << index;
\* nrf51_gpio_pin_cnf_write(&s->pin[index], value);
gpio_PIN_CNF(g, offset, value) ==
    LET index == PinOf(offset)
    IN  [g EXCEPT !.gpio.dir = Or32(@, BitShl(value.lo % 2, index)),
                  !.gpio.pin[index] = nrf51_gpio_pin_cnf_write(@, value)]

\* a write handler in which a write to IN stores the value in the input latch
nrf51_gpio_write_in(g, offset, value) ==
    CASE offset = NRF51_GPIO_OUT -> gpio_OUT(g, value)
      [] offset = NRF51_GPIO_OUTSET -> gpio_OUTSET(g, value)
      [] offset = NRF51_GPIO_OUTCLR -> gpio_OUTCLR(g, value)
      [] offset = NRF51_GPIO_IN -> [g EXCEPT !.gpio.in = value]
      [] offset = NRF51_GPIO_DIR -> gpio_DIR(g, value)
      [] offset = NRF51_GPIO_DIRSET -> gpio_DIRSET(g, value)
      [] offset = NRF51_GPIO_DIRCLR -> gpio_DIRCLR(g, value)
      [] offset \in PinCnfOffsets -> gpio_PIN_CNF(g, offset, value)
      [] OTHER -> g

nrf51_gpio_write(g, offset, value) ==
    CASE offset = NRF51_GPIO_OUT -> gpio_OUT(g, value)
      [] offset = NRF51_GPIO_OUTSET -> gpio_OUTSET(g, value)
      [] offset = NRF51_GPIO_OUTCLR -> gpio_OUTCLR(g, value)
      [] offset = NRF51_GPIO_DIR -> gpio_DIR(g, value)
      [] offset = NRF51_GPIO_DIRSET -> gpio_DIRSET(g, value)
      [] offset = NRF51_GPIO_DIRCLR -> gpio_DIRCLR(g, value)
      [] offset \in PinCnfOffsets -> gpio_PIN_CNF(g, offset, value)
      [] OTHER -> g

nrf51_gpio_read(st, offset) ==
    CASE offset \in OutOffsets -> st.out
      [] offset = NRF51_GPIO_IN -> st.in
      [] offset \in DirOffsets -> st.dir
      [] offset \in PinCnfOffsets ->
            nrf51_gpio_pin_cnf_read(st.pin[PinOf(offset)])
      [] OTHER -> Zero32


(***************************************************************************)
(* The stub devices: the random number generator, the flash controller,    *)
(* the factory information registers and the clock and power block.        *)
(***************************************************************************)
\* a bool as the uint64_t a read handler returns
FromBool(b) == IF b THEN U32(0, 1) ELSE Zero32

NRF51_RNG_START == 0
NRF51_RNG_STOP == 4
NRF51_RNG_VALRDY == 256
NRF51_RNG_SHORTS == 512
NRF51_RNG_INTEN == 768
NRF51_RNG_INTENSET == 772
NRF51_RNG_INTENCLR == 776
NRF51_RNG_CONFIG == 1284
NRF51_RNG_VALUE == 1288

\* the device after object allocation, with its properties at their defaults
NRF51RNGState == [value |-> 0, config |-> Zero32, ready |-> FALSE,
                  started |-> FALSE]

\* qcrypto_random_bytes(&s->value, 1, ...): any byte
Bytes == 0 .. 255

\* A read handler that assigns to the device gives the device and the value
\* returned; byte is the byte the random source delivers.
nrf51_rng_read(st, offset, byte) ==
    CASE offset \in {NRF51_RNG_START, NRF51_RNG_STOP, NRF51_RNG_VALRDY} ->
            [st |-> st, ret |-> FromBool(st.started)]
      [] offset = NRF51_RNG_VALUE ->
            [st |-> [st EXCEPT !.value = byte], ret |-> U32(0, byte)]
      [] OTHER -> [st |-> st, ret |-> Zero32]

nrf51_rng_write(st, offset, value) ==
    CASE offset = NRF51_RNG_START -> [st EXCEPT !.started = TRUE]
      [] offset = NRF51_RNG_STOP -> [st EXCEPT !.started = FALSE]
      [] offset = NRF51_RNG_CONFIG -> [st EXCEPT !.config = U32(0, value.lo % 2)]
      [] OTHER -> st

NRF51_NVMC_READY == 1024
NRF51_NVMC_CONFIG == 1284
NRF51_NVMC_ERASEPAGE == 1288
NRF51_NVMC_ERASEALL == 1292
NRF51_NVMC_ERASEPCR0 == 1296
NRF51_NVMC_ERASEUICR == 1300

NRF51NVMCState == [ready |-> U32(0, 1), config |-> Zero32]

\* the switch has the case READY and the default
nrf51_nvmc_read(st, offset) ==
    CASE offset = NRF51_NVMC_READY -> st.ready
      [] OTHER -> Zero32

nrf51_nvmc_write(st, offset, value) ==
    CASE offset = NRF51_NVMC_CONFIG -> [st EXCEPT !.config = value]
      [] OTHER -> st

NRF51_FICR_CODEPAGESIZE == 16
NRF51_FICR_CODESIZE == 20

NRF51FICRState == [codepagesize |-> U32(0, 4096), codesize |-> U32(0, 64)]

nrf51_ficr_read(st, offset) ==
    CASE offset = NRF51_FICR_CODEPAGESIZE -> st.codepagesize
      [] offset = NRF51_FICR_CODESIZE -> st.codesize
      [] OTHER -> Zero32

nrf51_ficr_write(st, offset, value) ==
    CASE offset = NRF51_FICR_CODEPAGESIZE -> [st EXCEPT !.codepagesize = value]
      [] offset = NRF51_FICR_CODESIZE -> [st EXCEPT !.codesize = value]
      [] OTHER -> st

NRF51_CLK_HFCLKSTART == 0
NRF51_CLK_HFCLKSTOP == 4
NRF51_CLK_LFCLKSTART == 8
NRF51_CLK_LFCLKSTOP == 12
NRF51_CLK_HFCLKSTARTED == 256
NRF51_CLK_LFCLKSTARTED == 260
NRF51_CLK_LFCLKSRC == 1304
NRF51_PWR_RAMON == 1316
NRF51_UNKNOWN_VAL == 0

\* the three fields are bool
NRF51CPMState == [hfclk_enabled |-> FALSE, lfclk_enabled |-> FALSE,
                  ramon |-> FALSE]

nrf51_cpm_read(st, offset) ==
    CASE offset \in {NRF51_CLK_HFCLKSTART, NRF51_CLK_LFCLKSTART,
                     NRF51_CLK_HFCLKSTOP, NRF51_CLK_LFCLKSTOP} -> Zero32
      [] offset = NRF51_CLK_HFCLKSTARTED -> FromBool(st.hfclk_enabled)
      [] offset = NRF51_CLK_LFCLKSTARTED -> FromBool(st.lfclk_enabled)
      [] offset = NRF51_PWR_RAMON -> FromBool(st.ramon)
      [] offset = NRF51_CLK_LFCLKSRC -> U32(0, NRF51_UNKNOWN_VAL)
      [] OTHER -> Zero32

\* the mask of the RAMON case
RamonMask == U32(3, 3)

\* s->ramon = value & 0x00030003, ramon a bool: true when a bit is left
nrf51_cpm_write(st, offset, value) ==
    CASE offset = NRF51_CLK_HFCLKSTART ->
            [st EXCEPT !.hfclk_enabled = (Bit0(value) = 1)]
      [] offset = NRF51_CLK_LFCLKSTART ->
            [st EXCEPT !.lfclk_enabled = (Bit0(value) = 1)]
      [] offset = NRF51_CLK_HFCLKSTOP ->
            [st EXCEPT !.hfclk_enabled = (Bit0(value) # 1)]
      [] offset = NRF51_CLK_LFCLKSTOP ->
            [st EXCEPT !.lfclk_enabled = (Bit0(value) # 1)]
      [] offset = NRF51_PWR_RAMON ->
            [st EXCEPT !.ramon = (And32(value, RamonMask) # Zero32)]
      [] OTHER -> st

\* an offset of the 0x1000 bytes of a stub device that no case names
STUB_BAD_OFFSET == 4092

\* the offsets that have a case other than the default in the read handler
\* of the stub device
StubReadCases(dev) ==
    CASE dev = "rng" ->
            {NRF51_RNG_START, NRF51_RNG_STOP, NRF51_RNG_VALRDY,
             NRF51_RNG_SHORTS, NRF51_RNG_INTEN, NRF51_RNG_INTENSET,
             NRF51_RNG_INTENCLR, NRF51_RNG_VALUE}
      [] dev = "nvmc" -> {NRF51_NVMC_READY}
      [] dev = "ficr" -> {NRF51_FICR_CODEPAGESIZE, NRF51_FICR_CODESIZE}
      [] dev = "cpm" ->
            {NRF51_CLK_HFCLKSTART, NRF51_CLK_LFCLKSTART, NRF51_CLK_HFCLKSTOP,
             NRF51_CLK_LFCLKSTOP, NRF51_CLK_HFCLKSTARTED,
             NRF51_CLK_LFCLKSTARTED, NRF51_PWR_RAMON, NRF51_CLK_LFCLKSRC}

\* and in its write handler
StubWriteCases(dev) ==
    CASE dev = "rng" ->
            {NRF51_RNG_START, NRF51_RNG_STOP, NRF51_RNG_CONFIG,
             NRF51_RNG_SHORTS, NRF51_RNG_INTEN, NRF51_RNG_INTENSET,
             NRF51_RNG_INTENCLR, NRF51_RNG_VALRDY}
      [] dev = "nvmc" ->
            {NRF51_NVMC_CONFIG, NRF51_NVMC_READY, NRF51_NVMC_ERASEPAGE,
             NRF51_NVMC_ERASEALL, NRF51_NVMC_ERASEPCR0, NRF51_NVMC_ERASEUICR}
      [] dev = "ficr" -> {NRF51_FICR_CODEPAGESIZE, NRF51_FICR_CODESIZE}
      [] dev = "cpm" ->
            {NRF51_CLK_HFCLKSTART, NRF51_CLK_LFCLKSTART, NRF51_CLK_HFCLKSTOP,
             NRF51_CLK_LFCLKSTOP, NRF51_CLK_HFCLKSTARTED,
             NRF51_CLK_LFCLKSTARTED, NRF51_PWR_RAMON, NRF51_CLK_LFCLKSRC}


(***************************************************************************)
(* The machine: the CPU's writes and the tick source's callbacks, each     *)
(* handler running to completion.                                          *)
(***************************************************************************)
Bundle == [s |-> s, timer |-> timer, irq |-> irq, calls |-> <<>>]

\* the timer as microbit_init leaves it
Reset ==
    [s |-> NRF51TimerState, timer |-> ptimer_init, irq |-> 0, calls |-> <<>>]

\* x - 1 for a limit mask x
Pred32(x) == U32(x.hi, x.lo - 1)

\* The timer after BITMODE = b, START = 1 and limit_mask - 1 ticks in timer
\* mode with no channel enabled: two ticks before the counter wraps.
Warm(b) ==
    LET m1 == nrf51_timer_write(Reset, NRF51_TIMER_BITMODE, U32(0, b))
        m2 == nrf51_timer_write(m1, NRF51_TIMER_START, U32(0, 1))
    IN  [m2 EXCEPT !.s.internal_counter = Pred32(m2.s.limit_mask),
                   !.calls = <<>>]

ControlOffsets == {NRF51_TIMER_START, NRF51_TIMER_STOP, NRF51_TIMER_SHUTDOWN}

TaskOffsets == ControlOffsets \cup {NRF51_TIMER_CLEAR}

\* The writes the CPU issues: every register of the handler and an offset it
\* does not name, each with the values that tell its cases apart.
Writes ==
    (TaskOffsets \X {U32(0, 1), U32(0, 2)})
    \cup ({NRF51_TIMER_COUNT} \X {U32(0, 1), U32(0, 255), U32(0, 65535)})
    \cup (CaptureOffsets \X {U32(1, 2)})
    \cup (CompareOffsets \X {U32(65535, 65535)})
    \cup (CCOffsets \X {U32(0, 255), U32(0, 256), U32(0, 65535),
                        U32(65535, 65535)})
    \cup ({NRF51_TIMER_INTENSET, NRF51_TIMER_INTENCLR}
            \X {U32(1, 1), U32(8, 0), U32(65535, 65535)})
    \cup ({NRF51_TIMER_MODE} \X {U32(0, 0), U32(1, 3)})
    \cup ({NRF51_TIMER_BITMODE} \X {U32(0, 0), U32(0, 1), U32(0, 2), U32(1, 7)})
    \cup ({NRF51_TIMER_PRESCALER} \X {U32(0, 4), U32(0, 255)})
    \cup ({NRF51_TIMER_SHORTS, TIMER_BAD_OFFSET} \X {U32(0, 1)})

NoHandler == [op |-> "none", offset |-> -1, value |-> Zero32]

\* the stub devices as microbit_create_devices leaves them
NRF51StubState ==
    [rng |-> NRF51RNGState, nvmc |-> NRF51NVMCState,
     ficr |-> NRF51FICRState, cpm |-> NRF51CPMState]

\* the instances of the timer besides the one at TIMER0_BASE
Peers == 1 .. 2

\* out, in and dir of the GPIO controller
Masks(st) == [out |-> st.out, in |-> st.in, dir |-> st.dir]

\* no access to the GPIO or the LED matrix yet
NoAccess ==
    [dev |-> "none", op |-> "none", offset |-> -1, value |-> Zero32,
     ret |-> Zero32, stores |-> <<>>,
     gpio |-> Masks(NRF51GPIOState), led |-> MICROBITLedMatrixState,
     stub |-> NRF51StubState,
     prev |-> [dev |-> "none", op |-> "none", offset |-> -1,
               value |-> Zero32, stores |-> <<>>]]

\* no START, STOP or SHUTDOWN was written with bit 0 set, and no COMPARE
NoControl ==
    [ctl |-> -1, at_stop |-> Zero32, cleared |-> FALSE,
     sent |-> [offset |-> -1, value |-> Zero32], hits |-> 0]

\* no read since the last write or tick
NoRead == [offset |-> -1, value |-> Zero32]

\* the machine with the timer at TIMER0_BASE as in m and the other two as
\* in p
InitWith(m, h, p) ==
    /\ s = m.s
    /\ timer = m.timer
    /\ irq = m.irq
    /\ calls = m.calls
    /\ last = NoHandler
    /\ pre = [s |-> m.s, timer |-> m.timer, ctl |-> h.ctl]
    /\ hist = h
    /\ rd = NoRead
    /\ nwrites = 0
    /\ nticks = 0
    /\ gpio = NRF51GPIOState
    /\ led = MICROBITLedMatrixState
    /\ io = NoAccess
    /\ stub = NRF51StubState
    /\ peers = p

InitFrom(m, h) == InitWith(m, h, [i \in Peers |-> Reset])

Init ==
    \/ InitFrom(Reset, NoControl)
    \/ \E b \in 0 .. 3 :
          InitFrom(Warm(b), [NoControl EXCEPT !.ctl = NRF51_TIMER_START])

Ran(m) ==
    /\ s' = m.s
    /\ timer' = m.timer
    /\ irq' = m.irq
    /\ calls' = m.calls
    /\ pre' = [s |-> s, timer |-> timer, ctl |-> hist.ctl]

\* hist after a write: the last control register written with bit 0 set, the
\* counter at the last such STOP, and whether a CLEAR or SHUTDOWN followed it;
\* the last COMPARE write, with no compare match of its channel after it yet
Noted(offset, value) ==
    IF offset \in CompareOffsets
    THEN [hist EXCEPT !.sent = [offset |-> offset, value |-> value],
                      !.hits = 0]
    ELSE IF Bit0(value) = 0 \/ offset \notin TaskOffsets THEN hist
    ELSE IF offset = NRF51_TIMER_STOP
    THEN [hist EXCEPT !.ctl = offset, !.at_stop = s.internal_counter,
                      !.cleared = FALSE]
    ELSE IF offset = NRF51_TIMER_START THEN [hist EXCEPT !.ctl = offset]
    ELSE IF offset = NRF51_TIMER_SHUTDOWN
    THEN [hist EXCEPT !.ctl = offset, !.cleared = TRUE]
    ELSE [hist EXCEPT !.cleared = TRUE]

\* the CPU's store to a register of the timer
WriteStep(offset, value) ==
    /\ Ran(nrf51_timer_write(Bundle, offset, value))
    /\ last' = [op |-> "write", offset |-> offset, value |-> value]
    /\ hist' = Noted(offset, value)
    /\ rd' = NoRead
    /\ nwrites' = nwrites + 1
    /\ UNCHANGED <<nticks, gpio, led, io, stub, peers>>

\* the coming tick is a compare match of channel i: timer mode, inten bit i
\* set and cc[i] equal to the counter the tick produces
Matching(i) ==
    /\ s.mode = 0
    /\ Bit(s.inten, i) = 1
    /\ s.cc[i] = And32(Inc32(s.internal_counter), s.limit_mask)

\* hist after a tick: one more match of the channel of the last COMPARE write
Struck ==
    IF hist.sent.offset \in CompareOffsets
       /\ Matching(ChannelOf(hist.sent.offset))
    THEN [hist EXCEPT !.hits = @ + 1]
    ELSE hist

\* the tick source invokes the callback while it is started
TickStep ==
    /\ timer.enabled
    /\ Ran(nrf51_timer_tick(Bundle))
    /\ last' = [op |-> "tick", offset |-> -1, value |-> Zero32]
    /\ hist' = Struck
    /\ rd' = NoRead
    /\ nticks' = nticks + 1
    /\ UNCHANGED <<nwrites, gpio, led, io, stub, peers>>

TimerWrite ==
    /\ nwrites < MaxWrites
    /\ \E w \in Writes : WriteStep(w[1], w[2])

TimerTick ==
    /\ nticks < MaxTicks
    /\ TickStep

Next == TimerWrite \/ TimerTick

Spec == Init /\ [][Next]_vars

\* the offsets the CPU reads: every register and an offset no case names
ReadOffsets ==
    TaskOffsets \cup CaptureOffsets \cup CompareOffsets \cup CCOffsets
    \cup {NRF51_TIMER_COUNT, NRF51_TIMER_SHORTS, NRF51_TIMER_INTENSET,
          NRF51_TIMER_INTENCLR, NRF51_TIMER_MODE, NRF51_TIMER_BITMODE,
          NRF51_TIMER_PRESCALER, TIMER_BAD_OFFSET}

\* the CPU's load from a register of the timer: the device is left as it was
ReadStep(offset) ==
    /\ rd' = [offset |-> offset, value |-> nrf51_timer_read(s, offset)]
    /\ nwrites' = nwrites + 1
    /\ UNCHANGED <<s, timer, irq, calls, last, pre, hist, nticks>>
    /\ UNCHANGED <<gpio, led, io, stub, peers>>

TimerRead ==
    /\ nwrites < MaxWrites
    /\ \E offset \in ReadOffsets : ReadStep(offset)

\* A read leaves the device as it was, so every state of the device that a
\* write after a read reaches is reached by the write without the read: the
\* CPU's writes are explored from the states with no read pending.
WriteUnread == rd = NoRead /\ TimerWrite

ReadTick ==
    /\ nticks < MaxReadTicks
    /\ TickStep

ReadNext == WriteUnread \/ ReadTick \/ TimerRead

\* the timer with the CPU's reads as well as its writes
SpecRead == Init /\ [][ReadNext]_vars


(***************************************************************************)
(* Properties of the tick callback.                                        *)
(***************************************************************************)
\* x < y as unsigned 32-bit values
Lt32(x, y) == Le32(x, y) /\ x # y

Max32 == U32(65535, 65535)

\* the pulses the last handler gave the line for channel ch
Pulses(ch) ==
    Cardinality({k \in DOMAIN calls : calls[k] = Call("qemu_irq_pulse", ch)})

\* all the pulses of the last handler
AllPulses ==
    Cardinality({k \in DOMAIN calls : calls[k].fn = "qemu_irq_pulse"})

Ticked == last.op = "tick"

\* the counter the last tick had to produce before its mode-specific part
Advanced == And32(Inc32(pre.s.internal_counter), pre.s.limit_mask)

\* C1: a tick in timer mode makes internal_counter (internal_counter + 1) &
\* limit_mask; a channel whose inten bit is set and whose cc equals the new
\* counter has compare incremented by one and the line pulsed once; every
\* other channel keeps its compare and pulses nothing.
C1_TimerModeTick ==
    (Ticked /\ pre.s.mode = 0) =>
        /\ s.internal_counter = Advanced
        /\ \A i \in Channels :
              IF Bit(pre.s.inten, i) = 1 /\ pre.s.cc[i] = s.internal_counter
              THEN s.compare[i] = Inc32(pre.s.compare[i]) /\ Pulses(i) = 1
              ELSE s.compare[i] = pre.s.compare[i] /\ Pulses(i) = 0

\* a timer-mode tick on which an enabled channel matched, while a channel that
\* is not enabled holds the same cc
C1_Witness ==
    /\ Ticked /\ pre.s.mode = 0
    /\ \E i, j \in Channels :
          /\ Bit(s.inten, i) = 1 /\ Pulses(i) = 1
          /\ Bit(s.inten, j) = 0 /\ s.cc[j] = s.cc[i]

\* C2: a tick in counter mode resets internal_counter to 0 and pulses the line
\* exactly once when the incremented and masked counter equals count, and
\* otherwise keeps the incremented value without a pulse; compare[] is kept.
C2_CounterModeTick ==
    (Ticked /\ pre.s.mode = 1) =>
        /\ IF Advanced = pre.s.count
           THEN s.internal_counter = Zero32 /\ AllPulses = 1
           ELSE s.internal_counter = Advanced /\ AllPulses = 0
        /\ s.compare = pre.s.compare

\* a counter-mode tick that reached a count other than 0 and wrapped
C2_Witness ==
    /\ Ticked /\ pre.s.mode = 1
    /\ s.count # Zero32 /\ Advanced = s.count
    /\ s.internal_counter = Zero32 /\ AllPulses = 1

\* C3: immediately after every tick, internal_counter <= limit_mask.
C3_CounterWithinMask == Ticked => Le32(s.internal_counter, s.limit_mask)

\* a tick that took the counter from limit_mask back to 0
C3_Witness ==
    /\ Ticked
    /\ pre.s.internal_counter = s.limit_mask
    /\ s.internal_counter = Zero32

\* C4 as stated: on a tick where an enabled channel of a timer in timer mode
\* matches, compare[i] becomes strictly greater, by exactly one.
C4_StrictIncrease ==
    (Ticked /\ pre.s.mode = 0) =>
        \A i \in Channels :
            (Bit(pre.s.inten, i) = 1 /\ pre.s.cc[i] = s.internal_counter) =>
                /\ Lt32(pre.s.compare[i], s.compare[i])
                /\ s.compare[i] = Inc32(pre.s.compare[i])

\* C4 as amended: on a tick where an enabled channel of a timer in timer mode
\* matches, compare[i] becomes compare[i] + 1 modulo 2^32 (strictly greater
\* unless it was 0xffffffff) with one pulse for the channel; on every other
\* tick an enabled channel keeps its compare and gets no pulse.
C4_IncrementModulo ==
    (Ticked /\ pre.s.mode = 0) =>
        \A i \in Channels :
            Bit(pre.s.inten, i) = 1 =>
                IF pre.s.cc[i] = s.internal_counter
                THEN /\ s.compare[i] = Inc32(pre.s.compare[i])
                     /\ (pre.s.compare[i] # Max32 =>
                            Lt32(pre.s.compare[i], s.compare[i]))
                     /\ (pre.s.compare[i] = Max32 => s.compare[i] = Zero32)
                     /\ Pulses(i) = 1
                ELSE s.compare[i] = pre.s.compare[i] /\ Pulses(i) = 0

\* a match on a channel whose compare held 0xffffffff
C4_Witness ==
    /\ Ticked /\ pre.s.mode = 0
    /\ \E i \in Channels :
          /\ Bit(pre.s.inten, i) = 1 /\ pre.s.cc[i] = s.internal_counter
          /\ pre.s.compare[i] = Max32 /\ s.compare[i] = Zero32

\* C7: on a tick in timer mode, a channel whose cc exceeds limit_mask does not
\* match: its compare is kept and the line gets no pulse for it, whatever
\* inten is.
C7_BeyondMaskNeverMatches ==
    (Ticked /\ pre.s.mode = 0) =>
        \A i \in Channels :
            Lt32(pre.s.limit_mask, pre.s.cc[i]) =>
                s.compare[i] = pre.s.compare[i] /\ Pulses(i) = 0

\* an 8-bit timer ticking past its wrap with an enabled channel at cc = 0x100
C7_Witness ==
    /\ Ticked /\ pre.s.mode = 0
    /\ s.limit_mask = U32(0, 255) /\ s.internal_counter = Zero32
    /\ \E i \in Channels : Bit(s.inten, i) = 1 /\ s.cc[i] = U32(0, 256)


(***************************************************************************)
(* Properties of START, STOP and SHUTDOWN.                                 *)
(***************************************************************************)
\* the last handler was a write of a value with bit 0 set to the register
Tasked(offset) ==
    last.op = "write" /\ last.offset = offset /\ Bit0(last.value) = 1

\* the last handler recalibrated the tick source
Recalibrated == \E k \in DOMAIN calls : calls[k].fn = "ptimer_set_limit"

\* C8: the tick source runs iff the last of START, STOP and SHUTDOWN written
\* with bit 0 set was START; a tick comes only then, so after a STOP or a
\* SHUTDOWN has returned no tick changes the timer until the next START.
C8_SynchronousCancel ==
    /\ timer.enabled <=> hist.ctl = NRF51_TIMER_START
    /\ Ticked => pre.ctl = NRF51_TIMER_START /\ hist.ctl = NRF51_TIMER_START
    /\ hist.ctl # NRF51_TIMER_START => ~Ticked

\* a STOP or SHUTDOWN that found the timer running after some ticks
C8_Witness ==
    /\ Tasked(NRF51_TIMER_STOP) \/ Tasked(NRF51_TIMER_SHUTDOWN)
    /\ pre.timer.enabled /\ nticks > 0
    /\ ~timer.enabled

\* C9: pulsed holds exactly when the last of START, STOP and SHUTDOWN written
\* with bit 0 set was STOP; a START after a STOP clears pulsed and does not
\* recalibrate the tick source and, when no CLEAR came in between, finds and
\* leaves internal_counter at its value at the STOP.
C9_Resume ==
    /\ s.pulsed <=> hist.ctl = NRF51_TIMER_STOP
    /\ (Tasked(NRF51_TIMER_START) /\ pre.ctl = NRF51_TIMER_STOP) =>
          /\ pre.s.pulsed /\ ~s.pulsed
          /\ ~Recalibrated
          /\ s.internal_counter = pre.s.internal_counter
          /\ ~hist.cleared => s.internal_counter = hist.at_stop

\* a START that resumed a timer paused at a counter other than 0
C9_Witness ==
    /\ Tasked(NRF51_TIMER_START) /\ pre.ctl = NRF51_TIMER_STOP
    /\ ~hist.cleared
    /\ s.internal_counter = hist.at_stop /\ s.internal_counter # Zero32
    /\ timer.enabled

\* C10: a SHUTDOWN with bit 0 set leaves the tick source stopped,
\* internal_counter 0 and pulsed false, whatever the state before; the next
\* START recalibrates.
C10_Shutdown ==
    /\ Tasked(NRF51_TIMER_SHUTDOWN) =>
          /\ ~timer.enabled
          /\ s.internal_counter = Zero32
          /\ ~s.pulsed
    /\ (Tasked(NRF51_TIMER_START) /\ pre.ctl = NRF51_TIMER_SHUTDOWN) =>
          Recalibrated /\ ~pre.s.pulsed

\* a SHUTDOWN of a paused timer whose counter was not 0
C10_Witness ==
    /\ Tasked(NRF51_TIMER_SHUTDOWN)
    /\ pre.s.pulsed /\ pre.s.internal_counter # Zero32
    /\ ~timer.enabled /\ s.internal_counter = Zero32 /\ ~s.pulsed

\* a START that followed a SHUTDOWN
C10_StartAfterShutdown ==
    Tasked(NRF51_TIMER_START) /\ pre.ctl = NRF51_TIMER_SHUTDOWN


(***************************************************************************)
(* Scenario S1: a compare match in timer mode, from the initial state.     *)
(***************************************************************************)
\* the values of CC0 tried
S1Targets == {1, 2, 10, 65534, 65535}

\* PRESCALER=4, BITMODE=0, CC0=N, INTENSET=0x00010000, MODE=0, START=1
S1Script(N) ==
    << <<NRF51_TIMER_PRESCALER, U32(0, 4)>>,
       <<NRF51_TIMER_BITMODE, U32(0, 0)>>,
       <<NRF51_TIMER_CC0, U32(0, N)>>,
       <<NRF51_TIMER_INTENSET, U32(1, 0)>>,
       <<NRF51_TIMER_MODE, U32(0, 0)>>,
       <<NRF51_TIMER_START, U32(0, 1)>> >>

S1Write ==
    \E N \in S1Targets :
        /\ nwrites < Len(S1Script(N))
        /\ WriteStep(S1Script(N)[nwrites + 1][1], S1Script(N)[nwrites + 1][2])

\* the ticks 1 .. N + 1
S1Tick ==
    /\ nticks <= s.cc[0].lo
    /\ TickStep

S1Next == S1Write \/ S1Tick

SpecS1 == InitFrom(Reset, NoControl) /\ [][S1Next]_vars

\* C5 as stated: no pulse on the ticks 1 .. N-1, one pulse on tick N with
\* compare[0] = 1 after it, and on tick N+1 internal_counter = N+1 and no pulse,
\* for every N in 1 .. 0xFFFF.
C5_S1Stated ==
    Ticked =>
        /\ nticks < s.cc[0].lo => AllPulses = 0
        /\ nticks = s.cc[0].lo => AllPulses = 1 /\ s.compare[0] = U32(0, 1)
        /\ nticks = s.cc[0].lo + 1 =>
              s.internal_counter = Inc32(s.cc[0]) /\ AllPulses = 0

\* C5 as amended: as stated for N in 1 .. 0xFFFE; for N = 0xFFFF the counter
\* wraps on tick N+1, so that internal_counter = (N+1) & 0xFFFF = 0 there.
C5_S1Amended ==
    Ticked =>
        /\ nticks < s.cc[0].lo => AllPulses = 0
        /\ nticks = s.cc[0].lo => AllPulses = 1 /\ s.compare[0] = U32(0, 1)
        /\ nticks = s.cc[0].lo + 1 =>
              /\ AllPulses = 0
              /\ s.cc[0].lo < 65535 => s.internal_counter = Inc32(s.cc[0])
              /\ s.cc[0].lo = 65535 => s.internal_counter = Zero32

\* tick N+1 of the scenario with N = 0xFFFF, after the match on tick N
C5_Witness ==
    /\ Ticked
    /\ s.cc[0] = U32(0, 65535) /\ nticks = 65536
    /\ s.compare[0] = U32(0, 1) /\ s.internal_counter = Zero32

(***************************************************************************)
(* Scenario S2: counter mode, from the initial state.                      *)
(***************************************************************************)
\* the values of COUNT tried
S2Counts == {1, 2, 5, 65535}

\* MODE=1, COUNT=n, START=1
S2Script(n) ==
    << <<NRF51_TIMER_MODE, U32(0, 1)>>,
       <<NRF51_TIMER_COUNT, U32(0, n)>>,
       <<NRF51_TIMER_START, U32(0, 1)>> >>

S2Write ==
    \E n \in S2Counts :
        /\ nwrites < Len(S2Script(n))
        /\ WriteStep(S2Script(n)[nwrites + 1][1], S2Script(n)[nwrites + 1][2])

\* the ticks of two periods and one more
S2Tick ==
    /\ nticks <= 2 * s.count.lo
    /\ TickStep

S2Next == S2Write \/ S2Tick

SpecS2 == InitFrom(Reset, NoControl) /\ [][S2Next]_vars

\* C6: after MODE=1, COUNT=n, START=1 the counter-mode timer counts 1 .. n-1
\* without a pulse, and every n-th tick finds internal_counter = count, wraps it
\* to 0 and pulses the line once.
C6_S2Period ==
    /\ hist.ctl = NRF51_TIMER_START => s.mode = 1 /\ s.count.lo >= 1
    /\ (Ticked /\ s.count.lo >= 1) =>
          /\ s.internal_counter = U32(0, nticks % s.count.lo)
          /\ nticks % s.count.lo = 0 => Advanced = s.count /\ AllPulses = 1
          /\ nticks % s.count.lo # 0 => AllPulses = 0

\* the end of the second period of a count above 1
C6_Witness ==
    /\ Ticked
    /\ s.count.lo > 1 /\ nticks = 2 * s.count.lo
    /\ s.internal_counter = Zero32 /\ AllPulses = 1


(***************************************************************************)
(* Properties of the other registers.                                      *)
(***************************************************************************)
\* the last handler was a write to the register
Wrote(offset) == last.op = "write" /\ last.offset = offset

\* C11: a CLEAR with bit 0 set zeroes internal_counter and leaves every other
\* field of the device and the running state of the tick source as they were;
\* a CLEAR with bit 0 clear changes nothing.
C11_ClearFrame ==
    Wrote(NRF51_TIMER_CLEAR) =>
        IF Bit0(last.value) = 1
        THEN /\ s = [pre.s EXCEPT !.internal_counter = Zero32]
             /\ timer.enabled = pre.timer.enabled
             /\ hist.ctl = pre.ctl
        ELSE s = pre.s /\ timer = pre.timer /\ calls = <<>>

\* a CLEAR of a running timer whose counter was not 0 and that holds a cc
C11_Witness ==
    /\ Tasked(NRF51_TIMER_CLEAR)
    /\ pre.s.internal_counter # Zero32 /\ s.internal_counter = Zero32
    /\ timer.enabled
    /\ \E i \in Channels : s.cc[i] # Zero32

\* a CLEAR of a paused timer
C11_ClearWhilePaused == Tasked(NRF51_TIMER_CLEAR) /\ s.pulsed


\* the CPU read offset right after the last handler, a write to offset
ReadBack(offset) == rd.offset = offset /\ Wrote(offset)

\* C12: a write of v to CC[i], COMPARE[i], MODE, BITMODE or PRESCALER followed
\* by a read of the same register with no handler in between returns v for
\* CC[i] and COMPARE[i], v & 1 for MODE, v & 3 for BITMODE and v & 0xF for
\* PRESCALER.
C12_RoundTrip ==
    /\ \A offset \in CCOffsets \cup CompareOffsets :
          ReadBack(offset) => rd.value = last.value
    /\ ReadBack(NRF51_TIMER_MODE) => rd.value = U32(0, last.value.lo % 2)
    /\ ReadBack(NRF51_TIMER_BITMODE) => rd.value = U32(0, last.value.lo % 4)
    /\ ReadBack(NRF51_TIMER_PRESCALER) =>
          rd.value = U32(0, last.value.lo % 16)

\* a PRESCALER value with bits above the field is read back masked
C12_Witness ==
    /\ ReadBack(NRF51_TIMER_PRESCALER)
    /\ last.value = U32(0, 255)
    /\ rd.value = U32(0, 15)

\* the other registers of the claim are read back too
C12_ReadBackMode == ReadBack(NRF51_TIMER_MODE) /\ last.value = U32(1, 3)
C12_ReadBackBitmode == ReadBack(NRF51_TIMER_BITMODE) /\ last.value = U32(1, 7)
C12_ReadBackCompare == ReadBack(NRF51_TIMER_COMPARE2) /\ rd.value # Zero32
C12_ReadBackCC == ReadBack(NRF51_TIMER_CC1) /\ rd.value = U32(0, 256)


(***************************************************************************)
(* A COMPARE register written and read back while the timer ticks.         *)
(***************************************************************************)
\* the channels, the values of CC and the values of COMPARE tried
S13Channels == {0, 3}
S13Targets == {1, 3}
S13Values == {Zero32, U32(0, 65535), U32(65535, 65535)}

\* BITMODE=1, CC[i]=c, INTENSET=bit i, START=1, COMPARE[i]=v
S13Script(i, c, v) ==
    << <<NRF51_TIMER_BITMODE, U32(0, 1)>>,
       <<NRF51_TIMER_CC0 + 4 * i, U32(0, c)>>,
       <<NRF51_TIMER_INTENSET, U32(2 ^ i, 0)>>,
       <<NRF51_TIMER_START, U32(0, 1)>>,
       <<NRF51_TIMER_COMPARE0 + 4 * i, v>> >>

S13Write ==
    \E i \in S13Channels, c \in S13Targets, v \in S13Values :
        /\ nwrites < Len(S13Script(i, c, v))
        /\ WriteStep(S13Script(i, c, v)[nwrites + 1][1],
                     S13Script(i, c, v)[nwrites + 1][2])

\* a few ticks before the COMPARE write, and after it the ticks of one round
\* of the 8-bit counter and the first of the next, until the CPU reads
S13Tick ==
    /\ rd = NoRead
    /\ IF hist.sent.offset \in CompareOffsets
       THEN nticks <= s.limit_mask.lo + 4
       ELSE nticks < 2
    /\ TickStep

\* the CPU reads a COMPARE register after the COMPARE write
S13Read ==
    /\ rd = NoRead
    /\ hist.sent.offset \in CompareOffsets
    /\ \E i \in S13Channels : ReadStep(NRF51_TIMER_COMPARE0 + 4 * i)

S13Next == S13Write \/ S13Tick \/ S13Read

SpecS13 == InitFrom(Reset, NoControl) /\ [][S13Next]_vars

\* x + n in uint32_t arithmetic
RECURSIVE IncBy(_, _)
IncBy(x, n) == IF n = 0 THEN x ELSE IncBy(Inc32(x), n - 1)

\* the CPU read the COMPARE register it last wrote, ticks or none in between
ReadSent == rd.offset = hist.sent.offset /\ rd.offset \in CompareOffsets

\* C13 as stated: with the timer running in timer mode, inten bit i set and
\* cc[i] within the counter's range, a read of COMPARE[i] after a write of v to
\* it returns v, whatever ticks came between the two.
C13_ReadObservesWrite ==
    (/\ ReadSent
     /\ timer.enabled /\ s.mode = 0
     /\ Bit(s.inten, ChannelOf(rd.offset)) = 1
     /\ Le32(s.cc[ChannelOf(rd.offset)], s.limit_mask))
        => rd.value = hist.sent.value

\* C13 as amended: the read returns v plus the number of ticks between the
\* write and the read that were compare matches of channel i, modulo 2^32;
\* it returns v when there was none.
C13_ReadObservesMatches ==
    ReadSent => rd.value = IncBy(hist.sent.value, hist.hits)

\* a read after a match that took compare[i] from 0xFFFFFFFF to 0
C13_Witness ==
    /\ ReadSent
    /\ timer.enabled /\ s.mode = 0
    /\ Bit(s.inten, ChannelOf(rd.offset)) = 1
    /\ hist.sent.value = U32(65535, 65535)
    /\ hist.hits = 1
    /\ rd.value = Zero32

\* reads after no match and after two
C13_ReadUnmatched == ReadSent /\ hist.hits = 0 /\ nticks > 2
C13_ReadTwice == ReadSent /\ hist.hits = 2


(***************************************************************************)
(* The task registers and the capture registers, read back.                *)
(***************************************************************************)
\* C14: a read of START, STOP, CLEAR or SHUTDOWN returns the value most
\* recently written to that register.
C14_ShadowRead ==
    \A offset \in TaskOffsets : ReadBack(offset) => rd.value = last.value

\* what the handlers do instead: no write case assigns s->start, s->stop,
\* s->clear or s->shutdown, so the four fields stay 0 and every read of the
\* four registers returns 0
C14_ShadowsStayZero ==
    /\ s.start = Zero32 /\ s.stop = Zero32
    /\ s.clear = Zero32 /\ s.shutdown = Zero32
    /\ rd.offset \in TaskOffsets => rd.value = Zero32

\* START read right after START was written with 1
C14_ReadAfterStart ==
    ReadBack(NRF51_TIMER_START) /\ last.value = U32(0, 1) /\ rd.value = Zero32

\* C15: a write of any value to CAPTURE[i] copies internal_counter into cc[i]
\* and changes nothing else of the device or the tick source; a read of CC[i]
\* right after it returns the counter as it was at the capture.
C15_CaptureIntoCC ==
    \A i \in Channels :
        Wrote(NRF51_TIMER_CAPTURE0 + 4 * i) =>
            /\ s = [pre.s EXCEPT !.cc[i] = pre.s.internal_counter]
            /\ timer = pre.timer /\ calls = <<>>
            /\ rd.offset = NRF51_TIMER_CC0 + 4 * i =>
                  rd.value = pre.s.internal_counter

\* a capture of a counter that is neither 0 nor the written value, read back
C15_Witness ==
    /\ Wrote(NRF51_TIMER_CAPTURE2)
    /\ rd.offset = NRF51_TIMER_CC2
    /\ rd.value = pre.s.internal_counter
    /\ rd.value \notin {Zero32, last.value, pre.s.cc[2]}

\* C16: after a CAPTURE[i] write, a read of the CAPTURE[i] register returns
\* the internal_counter value at the time of that write.
C16_CaptureSnapshot ==
    \A offset \in CaptureOffsets :
        ReadBack(offset) => rd.value = pre.s.internal_counter

\* what the handlers do instead: the capture goes to cc[i], capture[i] is
\* never assigned, and every read of a CAPTURE register returns 0
C16_CaptureStaysZero ==
    /\ \A i \in Channels : s.capture[i] = Zero32
    /\ rd.offset \in CaptureOffsets => rd.value = Zero32

\* CAPTURE1 read as 0 right after a capture of a counter that is not 0
C16_ReadAfterCapture ==
    /\ ReadBack(NRF51_TIMER_CAPTURE1)
    /\ pre.s.internal_counter # Zero32
    /\ s.cc[1] = pre.s.internal_counter
    /\ rd.value = Zero32


(***************************************************************************)
(* The interrupt-enable mask, the prescaler and the counter width.         *)
(***************************************************************************)
\* bit i of (value >> 16) & 0xF
Named(value, i) == Bit(value.hi, i) = 1

\* C17: inten is a 4-bit value; INTENSET with v makes it
\* inten | ((v >> 16) & 0xF) and INTENCLR with v makes it
\* inten & ~((v >> 16) & 0xF), bit by bit, and neither changes another field.
C17_IntenMask ==
    /\ s.inten \in 0 .. 15
    /\ Wrote(NRF51_TIMER_INTENSET) =>
          /\ \A i \in Channels :
                Bit(s.inten, i) = 1 <=>
                    (Bit(pre.s.inten, i) = 1 \/ Named(last.value, i))
          /\ s = [pre.s EXCEPT !.inten = s.inten]
    /\ Wrote(NRF51_TIMER_INTENCLR) =>
          /\ \A i \in Channels :
                Bit(s.inten, i) = 1 <=>
                    (Bit(pre.s.inten, i) = 1 /\ ~Named(last.value, i))
          /\ s = [pre.s EXCEPT !.inten = s.inten]

\* INTENCLR of channel 0 after all four channels were enabled, by a value
\* with bits set outside bits 16..19 too
C17_Witness ==
    /\ Wrote(NRF51_TIMER_INTENCLR)
    /\ last.value = U32(1, 1)
    /\ pre.s.inten = 15 /\ s.inten = 14

\* INTENSET adding a channel to one already enabled
C17_SetSecond ==
    /\ Wrote(NRF51_TIMER_INTENSET)
    /\ pre.s.inten = 1 /\ s.inten = 9

\* C18: prescaler <= 9 in every reachable state, whatever was written to
\* PRESCALER.
C18_PrescalerAtMostNine == s.prescaler <= 9

\* what the handler does instead: prescaler is the low four bits of the last
\* value written to PRESCALER, any of 0 .. 15
C18_PrescalerFourBits ==
    /\ s.prescaler \in 0 .. 15
    /\ Wrote(NRF51_TIMER_PRESCALER) => s.prescaler = last.value.lo % 16

\* PRESCALER written with 0xFF
C18_PrescalerFifteen ==
    /\ Wrote(NRF51_TIMER_PRESCALER)
    /\ last.value = U32(0, 255)
    /\ s.prescaler = 15

\* the last handler set the frequency of the tick source to freq
Programmed(freq) ==
    /\ \E k \in DOMAIN calls : calls[k] = Call("ptimer_set_freq", freq)
    /\ timer.freq = freq

\* C19: a START with bit 0 set programs the tick source with
\* 16,000,000 / 2^prescaler Hz, for the prescaler in effect at that START.
C19_StartFrequency ==
    Tasked(NRF51_TIMER_START) =>
        Programmed(16000000 \div (2 ^ pre.s.prescaler))

\* what the handler does instead: every START programs s->freq, which
\* realize set to NRF51_TIMER_BASE_FREQ = 0x01000000 and nothing changes
C19_StartBaseFrequency ==
    /\ s.freq = NRF51_TIMER_BASE_FREQ
    /\ Tasked(NRF51_TIMER_START) => Programmed(NRF51_TIMER_BASE_FREQ)

\* START with prescaler 4 in effect programs 16,777,216 Hz, not 1 MHz
C19_StartPrescaled ==
    /\ Tasked(NRF51_TIMER_START)
    /\ pre.s.prescaler = 4
    /\ Programmed(NRF51_TIMER_BASE_FREQ)
    /\ timer.freq # 1000000

\* 0xFFFF, 0xFF, 0xFFFFFF, 0xFFFFFFFF for bitmode 0, 1, 2, 3
WidthMask ==
    << U32(0, 65535), U32(0, 255), U32(255, 65535), U32(65535, 65535) >>

\* C20: a START with bit 0 set makes limit_mask the mask of the bitmode in
\* effect at that START; no other handler changes limit_mask, a BITMODE write
\* included, so that ticks after a BITMODE write wrap at the old width.
C20_MaskAtStart ==
    /\ Tasked(NRF51_TIMER_START) =>
          s.limit_mask = WidthMask[pre.s.bitmode + 1]
    /\ Wrote(NRF51_TIMER_BITMODE) =>
          s = [pre.s EXCEPT !.bitmode = last.value.lo % 4]
    /\ (last.op # "none" /\ ~Tasked(NRF51_TIMER_START)) =>
          s.limit_mask = pre.s.limit_mask
    /\ Ticked =>
          /\ Le32(s.internal_counter, s.limit_mask)
          /\ s.mode = 0 => s.internal_counter = Advanced

\* a tick that wraps at the old width after BITMODE was changed
C20_Witness ==
    /\ Ticked
    /\ s.limit_mask # WidthMask[s.bitmode + 1]
    /\ pre.s.internal_counter = s.limit_mask
    /\ s.internal_counter = Zero32

\* a START that changes the width to the one BITMODE asked for
C20_StartRederives ==
    /\ Tasked(NRF51_TIMER_START)
    /\ pre.s.limit_mask # s.limit_mask
    /\ s.limit_mask = WidthMask[s.bitmode + 1]
    /\ pre.s.limit_mask # Zero32


(***************************************************************************)
(* The machine of the GPIO controller and the LED matrix: the CPU's        *)
(* accesses and the display update, each handler running to completion.    *)
(***************************************************************************)
timervars == <<s, timer, irq, calls, last, pre, hist, rd, nticks, peers>>

\* io after an access: what was asked, what came back, the stores made, and
\* the masks of the GPIO controller, the LED matrix and the stub devices as
\* the handler found them
Accessed(dev, op, offset, value, ret, stores) ==
    [dev |-> dev, op |-> op, offset |-> offset, value |-> value,
     ret |-> ret, stores |-> stores, gpio |-> Masks(gpio), led |-> led,
     stub |-> stub,
     prev |-> [dev |-> io.dev, op |-> io.op, offset |-> io.offset,
               value |-> io.value, stores |-> io.stores]]

\* the CPU's store to a register of the GPIO controller
GpioWriteStep(offset, value) ==
    \E g \in {nrf51_gpio_write([gpio |-> gpio, led |-> led, stores |-> <<>>],
                               offset, value)} :
        /\ gpio' = g.gpio
        /\ led' = g.led
        /\ io' = Accessed("gpio", "write", offset, value, Zero32, g.stores)
        /\ nwrites' = nwrites + 1
        /\ UNCHANGED <<timervars, stub>>

\* the CPU's load from a register of the GPIO controller
GpioReadStep(offset) ==
    /\ io' = Accessed("gpio", "read", offset, Zero32,
                      nrf51_gpio_read(gpio, offset), <<>>)
    /\ nwrites' = nwrites + 1
    /\ UNCHANGED <<gpio, led>>
    /\ UNCHANGED <<timervars, stub>>

\* the pins whose PIN_CNF register the CPU accesses
GpioPins == {0, 4, 13, 31}

\* The writes the CPU issues to the GPIO controller: every register of the
\* handler, IN and an offset it does not name.
GpioWrites ==
    ({NRF51_GPIO_OUT}
        \X {U32(0, 8192), U32(0, 8432), U32(0, 15), U32(65535, 65535)})
    \cup ({NRF51_GPIO_OUTSET} \X {U32(0, 16400), U32(65535, 15)})
    \cup ({NRF51_GPIO_OUTCLR} \X {U32(0, 8432), U32(0, 0)})
    \cup ({NRF51_GPIO_DIR}
            \X {U32(65535, 65535), U32(0, 8384), U32(0, 0)})
    \cup ({NRF51_GPIO_DIRSET} \X {U32(32768, 16), U32(0, 8192)})
    \cup ({NRF51_GPIO_DIRCLR} \X {U32(32768, 16), U32(0, 240)})
    \cup ({NRF51_GPIO_PIN_CNF0 + 4 * n : n \in GpioPins}
            \X {U32(3, 1807), U32(2, 258)})
    \cup ({NRF51_GPIO_IN, GPIO_BAD_OFFSET} \X {U32(0, 1)})

GpioReads ==
    OutOffsets \cup DirOffsets \cup {NRF51_GPIO_IN, GPIO_BAD_OFFSET}
    \cup {NRF51_GPIO_PIN_CNF0 + 4 * n : n \in GpioPins}

GpioWrite ==
    /\ nwrites < MaxGpioAccesses
    /\ io.op # "read"
    /\ \E w \in GpioWrites : GpioWriteStep(w[1], w[2])

GpioRead ==
    /\ nwrites < MaxGpioAccesses
    /\ io.op # "read"
    /\ \E offset \in GpioReads : GpioReadStep(offset)

GpioNext == GpioWrite \/ GpioRead

SpecGpio == InitFrom(Reset, NoControl) /\ [][GpioNext]_vars

\* the CPU's store to LED_BASE
LedWriteStep(value) ==
    /\ led' = microbit_led_matrix_write(led, value)
    /\ io' = Accessed("led", "write", 0, value, Zero32, <<>>)
    /\ nwrites' = nwrites + 1
    /\ UNCHANGED gpio
    /\ UNCHANGED <<timervars, stub>>

\* the CPU's load from LED_BASE
LedReadStep ==
    /\ led' = led_read(led)
    /\ io' = Accessed("led", "read", 0, Zero32,
                      microbit_led_matrix_read(led), <<>>)
    /\ nwrites' = nwrites + 1
    /\ UNCHANGED gpio
    /\ UNCHANGED <<timervars, stub>>

\* the console asks the device to draw
LedUpdateStep ==
    /\ led' = microbit_led_matrix_update_display(led)
    /\ io' = Accessed("led", "update", -1, Zero32, Zero32, <<>>)
    /\ nwrites' = nwrites + 1
    /\ UNCHANGED gpio
    /\ UNCHANGED <<timervars, stub>>

\* The values stored to LED_BASE: each row with all, some and none of its
\* columns driven (a column is driven by a 0), each row value the switch
\* does not name, and bits outside the row and column fields.
LedWrites ==
    {U32(0, 16320), U32(0, 8192), U32(0, 16368),
     U32(0, 16384), U32(0, 21840),
     U32(0, 32768), U32(0, 35488),
     U32(0, 0), U32(0, 24576), U32(0, 42480), U32(0, 49152), U32(0, 57344),
     U32(65535, 16335)}

LedWrite ==
    /\ nwrites < MaxLedAccesses
    /\ \E value \in LedWrites : LedWriteStep(value)

LedRead ==
    /\ nwrites < MaxLedAccesses
    /\ LedReadStep

LedUpdate ==
    /\ nwrites < MaxLedAccesses
    /\ LedUpdateStep

LedNext == LedWrite \/ LedRead \/ LedUpdate

SpecLed == InitFrom(Reset, NoControl) /\ [][LedNext]_vars


(***************************************************************************)
(* Properties of the GPIO direction registers.                             *)
(***************************************************************************)
\* the last access was a CPU write to the GPIO register
GpioWrote(offset) ==
    io.dev = "gpio" /\ io.op = "write" /\ io.offset = offset

\* the direction field of pin p as bit 0 of PIN_CNF[p] reads it
DirField(p) == nrf51_gpio_pin_cnf_read(gpio.pin[p]).lo % 2

\* C21: after a write to DIR, DIRSET or DIRCLR, the direction field of every
\* pin p, read through bit 0 of PIN_CNF[p], equals bit p of the resulting
\* dir mask.
C21_PinsFollowDir ==
    \A offset \in DirOffsets :
        GpioWrote(offset) => \A p \in Pins : DirField(p) = BitAt(gpio.dir, p)

\* what the handler does instead: the mask is assigned, ORed or AND-NOTed
\* as the spec says, and every pin's direction field is made the
\* complement of its bit of the mask
C21_PinsOpposeDir ==
    /\ GpioWrote(NRF51_GPIO_DIR) => gpio.dir = io.value
    /\ GpioWrote(NRF51_GPIO_DIRSET) => gpio.dir = Or32(io.gpio.dir, io.value)
    /\ GpioWrote(NRF51_GPIO_DIRCLR) =>
          gpio.dir = And32(io.gpio.dir, Not32(io.value))
    /\ \A offset \in DirOffsets :
          GpioWrote(offset) =>
              \A p \in Pins : DirField(p) = 1 - BitAt(gpio.dir, p)

\* DIR = 0xFFFFFFFF leaves every pin reading as an input
C21_AllOutputsReadInput ==
    /\ GpioWrote(NRF51_GPIO_DIR)
    /\ gpio.dir = U32(65535, 65535)
    /\ \A p \in Pins : DirField(p) = 0

\* C22: in every state reachable by writes to DIR, DIRSET, DIRCLR and
\* PIN_CNF[n], bit i of dir equals the direction field of pin i, for every
\* pin i.
C22_DirMatchesPins ==
    \A i \in Pins : BitAt(gpio.dir, i) = gpio.pin[i].dir

\* what a PIN_CNF[n] write does: it ORs its direction field into bit n of
\* dir, so that it sets the bit when the field is 1 and never clears it,
\* stores its fields in pin n and leaves the other pins as they were
C22_PinCnfOrsDir ==
    \A offset \in PinCnfOffsets :
        GpioWrote(offset) =>
            /\ gpio.dir =
                  Or32(io.gpio.dir, BitShl(io.value.lo % 2, PinOf(offset)))
            /\ gpio.pin[PinOf(offset)].dir = io.value.lo % 2
            /\ nrf51_gpio_read(gpio, offset) =
                  And32(io.value, U32(3, 1807))
            /\ gpio.out = io.gpio.out /\ gpio.in = io.gpio.in

\* and a PIN_CNF[n] write leaves the record of every other pin as it was
C22_OtherPinsKept ==
    [][\A offset \in PinCnfOffsets :
          (io'.dev = "gpio" /\ io'.op = "write" /\ io'.offset = offset) =>
              \A p \in Pins \ {PinOf(offset)} : gpio'.pin[p] = gpio.pin[p]]_vars

\* PIN_CNF4 written as an input after PIN_CNF4 was written as an output:
\* bit 4 of dir stays set
C22_InputPinKeepsDirBit ==
    /\ GpioWrote(NRF51_GPIO_PIN_CNF0 + 16)
    /\ io.value.lo % 2 = 0
    /\ io.prev.op = "write" /\ io.prev.offset = NRF51_GPIO_PIN_CNF0 + 16
    /\ io.gpio.dir = U32(0, 16)
    /\ gpio.dir = U32(0, 16)
    /\ gpio.pin[4].dir = PIN_CNF_DIR_IN


(***************************************************************************)
(* Properties of the GPIO output registers and of the store to the LED     *)
(* matrix.                                                                 *)
(***************************************************************************)
\* the last access was a CPU write to OUT, OUTSET or OUTCLR
OutWrote == io.dev = "gpio" /\ io.op = "write" /\ io.offset \in OutOffsets

\* the latch the last output write computed, by the spec's formulas
Latch ==
    CASE io.offset = NRF51_GPIO_OUT -> And32(io.value, io.gpio.dir)
      [] io.offset = NRF51_GPIO_OUTSET ->
            Or32(io.gpio.out, And32(io.value, io.gpio.dir))
      [] io.offset = NRF51_GPIO_OUTCLR ->
            And32(And32(io.gpio.out, Not32(io.value)), io.gpio.dir)

\* latch & 0x0000FFF0
OnLedBus(latch) == And32(latch, U32(0, 65520))

\* C23: every bit of a value that an output write stores to the LED matrix
\* is set in dir; a bit of the written value whose pin is not an output
\* never gets there.
C23_OnlyOutputPinsDrive ==
    OutWrote =>
        \A k \in DOMAIN io.stores :
            /\ And32(io.stores[k].val, Not32(io.gpio.dir)) = Zero32
            /\ \A p \in Pins :
                  BitAt(io.stores[k].val, p) = 1 =>
                      BitAt(io.gpio.dir, p) = 1 /\ gpio.dir = io.gpio.dir

\* OUT = 0xFFFFFFFF under a dir of a few pins: the store carries those only
C23_Witness ==
    /\ GpioWrote(NRF51_GPIO_OUT)
    /\ io.value = U32(65535, 65535)
    /\ io.gpio.dir = U32(0, 8384)
    /\ io.stores = << [addr |-> LED_BASE, val |-> U32(0, 8384)] >>

\* C24: an output write computes the latch, hands it to the LED matrix and
\* clears it before it returns, so that out is 0 in every reachable state
\* and a read of OUT, OUTSET or OUTCLR returns 0.
C24_WriteThroughAndReset ==
    /\ gpio.out = Zero32
    /\ (io.dev = "gpio" /\ io.op = "read" /\ io.offset \in OutOffsets) =>
          io.ret = Zero32
    /\ OutWrote =>
          \A k \in DOMAIN io.stores : io.stores[k].val = OnLedBus(Latch)

\* a latch that reached the LED matrix and is read back as 0
C24_Witness ==
    /\ io.dev = "gpio" /\ io.op = "read" /\ io.offset = NRF51_GPIO_OUTSET
    /\ io.ret = Zero32
    /\ io.prev.op = "write" /\ io.prev.offset = NRF51_GPIO_OUTSET
    /\ io.prev.stores # <<>>

\* C25: an output write stores to LED_BASE iff its latch has a bit of
\* 0x0000FFF0 set; then it makes that one store, of latch & 0x0000FFF0;
\* otherwise it makes none and the LED matrix stays as it was.
C25_Bridge ==
    OutWrote =>
        IF OnLedBus(Latch) # Zero32
        THEN /\ io.stores = << [addr |-> LED_BASE, val |-> OnLedBus(Latch)] >>
             /\ led = microbit_led_matrix_write(io.led, OnLedBus(Latch))
        ELSE io.stores = <<>> /\ led = io.led

\* with DIR = 0xFFFFFFFF, OUT = 0x000020F0 delivers 0x000020F0
C25_Witness ==
    /\ GpioWrote(NRF51_GPIO_OUT)
    /\ io.gpio.dir = U32(65535, 65535)
    /\ io.value = U32(0, 8432)
    /\ io.stores = << [addr |-> LED_BASE, val |-> U32(0, 8432)] >>

\* an output write that stores nothing, after one that lit the matrix
C25_NoStore ==
    /\ OutWrote
    /\ io.value # Zero32 /\ io.stores = <<>>
    /\ led.led_state # 0 /\ led = io.led

\* OUT read right after 0x00002000 was written to OUT with DIR = 0xFFFFFFFF
S5Read ==
    /\ io.dev = "gpio" /\ io.op = "read" /\ io.offset = NRF51_GPIO_OUT
    /\ io.prev.dev = "gpio" /\ io.prev.op = "write"
    /\ io.prev.offset = NRF51_GPIO_OUT /\ io.prev.value = U32(0, 8192)
    /\ io.gpio.dir = U32(65535, 65535)

\* C26 as stated: in scenario S5 the LED matrix receives a store of
\* 0x00000000 and the read of OUT returns 0.
C26_S5Stated ==
    S5Read =>
        /\ io.prev.stores = << [addr |-> LED_BASE, val |-> Zero32] >>
        /\ io.ret = Zero32

\* C26 as amended: in scenario S5 the LED matrix receives one store, of
\* 0x00002000 (bit 13 lies within 0x0000FFF0), and the read of OUT returns 0.
C26_S5Amended ==
    S5Read =>
        /\ io.prev.stores = << [addr |-> LED_BASE, val |-> U32(0, 8192)] >>
        /\ io.ret = Zero32

\* scenario S5 from reset: the store lights the nine LEDs of row 0
C26_Witness ==
    /\ S5Read
    /\ io.ret = Zero32
    /\ led.led_state = 1017877


(***************************************************************************)
(* Properties of the LED matrix.                                           *)
(***************************************************************************)
\* the last access was a CPU write to LED_BASE
LedWrote == io.dev = "led" /\ io.op = "write"

\* (value >> 13) & 7 of the value last written
RowBits == (io.value.lo \div 8192) % 8

\* the positions of the bits set in a frame, a value below 2^31
BitsOf(n) == {k \in 0 .. 30 : Bit(n, k) = 1}

\* the positions of clear_bits for rows 0, 1, 2:
\* 0x000f8815, 0x00a0540a, 0x015023e0
RowLeds ==
    << {0, 2, 4, 11, 15, 16, 17, 18, 19},
       {1, 3, 10, 12, 14, 21, 23},
       {5, 6, 7, 8, 9, 13, 20, 22, 24} >>

\* the positions of new_bits: x + 5 * y of the table entry row + 3 * c for
\* every column c whose bit of the value is 0 (driven), the sentinel (5, 5)
\* left out
NewLeds(row, value) ==
    {matrix_map[row + 3 * c + 1].x + 5 * matrix_map[row + 3 * c + 1].y :
        c \in {c \in 0 .. 8 :
                  /\ Bit(value.lo, 4 + c) = 0
                  /\ matrix_map[row + 3 * c + 1] # Point(5, 5)}}

\* C27: an LED write whose row bits are 1, 2 or 4 makes the frame
\* ((old & ~clear_bits[row]) | new_bits) & 0x01FFFFFF, whatever the old
\* frame, and marks both redraw events.
C27_Decode ==
    \A row \in 0 .. 2 :
        (LedWrote /\ RowBits = 2 ^ row) =>
            /\ BitsOf(led.led_state) =
                  ((BitsOf(io.led.led_state) \ RowLeds[row + 1])
                      \cup NewLeds(row, io.value)) \cap (0 .. 24)
            /\ led.led_event = 3

\* a row-1 write with some columns driven, over a frame that had LEDs of
\* row 1 and of another row lit
C27_Witness ==
    /\ LedWrote /\ RowBits = 2
    /\ io.value = U32(0, 21840)
    /\ BitsOf(io.led.led_state) \cap RowLeds[2] # {}
    /\ BitsOf(io.led.led_state) \cap RowLeds[1] # {}
    /\ BitsOf(led.led_state) \cap RowLeds[2] = {1, 10, 23}
    /\ BitsOf(led.led_state) \cap RowLeds[1] # {}

\* a row-1 write that drives the two columns whose entry is the sentinel
C27_SentinelDriven ==
    /\ LedWrote /\ io.value = U32(0, 16384)
    /\ BitsOf(led.led_state) \cap RowLeds[2] = RowLeds[2]

\* the value of scenario S4, (1<<13) | (~((1<<4)|(1<<5)) & 0x1FF0), written
\* over an all-zero frame
S4Write ==
    /\ LedWrote
    /\ io.value = U32(0, 16320)
    /\ io.led.led_state = 0

\* C28 as stated: scenario S4 leaves led_state with the bits of (x=0,y=0)
\* (index 0) and of (x=4,y=2) (index 14) set.
C28_S4Stated ==
    S4Write => Bit(led.led_state, 0) = 1 /\ Bit(led.led_state, 14) = 1

\* C28 as amended: scenario S4 leaves led_state with exactly the bits of
\* (x=0,y=0) (index 0) and of (x=2,y=0) (index 2) set: column 1 of row 0 is
\* the table entry at index 0 + 3 * 1, which is (2,0).
C28_S4Amended ==
    S4Write => BitsOf(led.led_state) = {0, 2}

\* scenario S4 as the first access
C28_Witness ==
    /\ S4Write
    /\ io.prev.op = "none"
    /\ led.led_state = 5

\* C29: an LED write whose row bits are 0, 3, 5, 6 or 7 leaves the frame and
\* the redraw events as they were.
C29_InvalidRowIgnored ==
    (LedWrote /\ RowBits \notin {1, 2, 4}) => led = io.led

\* a write with row bits 3 over a lit frame with no redraw pending
C29_Witness ==
    /\ LedWrote /\ RowBits = 3
    /\ io.led.led_state # 0
    /\ io.led.led_event = MICROBIT_LED_EVENT_NONE
    /\ led = io.led

\* every row value the switch does not name is written
C29_EveryInvalidRow ==
    /\ LedWrote /\ RowBits \in {0, 5, 6, 7} /\ io.led.led_state # 0

\* C30: an LED read returns the frame, leaves it as it was and marks both
\* the foreground and the background redraw pending, whatever was pending.
C30_ReadMarksRedraw ==
    (io.dev = "led" /\ io.op = "read") =>
        /\ io.ret = U32(io.led.led_state \div 65536,
                        io.led.led_state % 65536)
        /\ led.led_state = io.led.led_state
        /\ Bit(led.led_event, 0) = 1 /\ Bit(led.led_event, 1) = 1
        /\ led.led_event = 3

\* a read of a lit frame with no redraw pending
C30_Witness ==
    /\ io.dev = "led" /\ io.op = "read"
    /\ io.led.led_event = MICROBIT_LED_EVENT_NONE
    /\ io.led.led_state > 65535
    /\ io.ret = FromNat(led.led_state)
    /\ led.led_event = 3


(***************************************************************************)
(* The stub devices and the machine reset.                                 *)
(***************************************************************************)
StubDevices == {"rng", "nvmc", "ficr", "cpm"}

\* the write handler of the region the address falls in
stub_write(st, dev, offset, value) ==
    CASE dev = "rng" -> [st EXCEPT !.rng = nrf51_rng_write(@, offset, value)]
      [] dev = "nvmc" ->
            [st EXCEPT !.nvmc = nrf51_nvmc_write(@, offset, value)]
      [] dev = "ficr" ->
            [st EXCEPT !.ficr = nrf51_ficr_write(@, offset, value)]
      [] dev = "cpm" -> [st EXCEPT !.cpm = nrf51_cpm_write(@, offset, value)]

\* the read handler of the region the address falls in: the devices after
\* it and the value it returns
stub_read(st, dev, offset, byte) ==
    CASE dev = "rng" ->
            LET r == nrf51_rng_read(st.rng, offset, byte)
            IN  [st |-> [st EXCEPT !.rng = r.st], ret |-> r.ret]
      [] dev = "nvmc" -> [st |-> st, ret |-> nrf51_nvmc_read(st.nvmc, offset)]
      [] dev = "ficr" -> [st |-> st, ret |-> nrf51_ficr_read(st.ficr, offset)]
      [] dev = "cpm" -> [st |-> st, ret |-> nrf51_cpm_read(st.cpm, offset)]

\* the CPU's store to a register of a stub device
StubWriteStep(dev, offset, value) ==
    /\ stub' = stub_write(stub, dev, offset, value)
    /\ io' = Accessed(dev, "write", offset, value, Zero32, <<>>)
    /\ nwrites' = nwrites + 1
    /\ UNCHANGED <<timervars, gpio, led>>

\* the CPU's load from a register of a stub device
StubReadStep(dev, offset, byte) ==
    \E r \in {stub_read(stub, dev, offset, byte)} :
        /\ stub' = r.st
        /\ io' = Accessed(dev, "read", offset, Zero32, r.ret, <<>>)
        /\ nwrites' = nwrites + 1
        /\ UNCHANGED <<timervars, gpio, led>>

\* A machine reset event: the reset handler of each device that registers
\* one runs. The LED matrix registers microbit_led_matrix_reset; the class
\* initialisers of the timer, the GPIO controller and the stub devices set
\* no reset handler, so that these devices are left as they are.
MachineResetStep ==
    /\ led' = microbit_led_matrix_reset(led)
    /\ io' = Accessed("machine", "reset", -1, Zero32, Zero32, <<>>)
    /\ last' = [op |-> "reset", offset |-> -1, value |-> Zero32]
    /\ pre' = [s |-> s, timer |-> timer, ctl |-> hist.ctl]
    /\ rd' = NoRead
    /\ nwrites' = nwrites + 1
    /\ UNCHANGED <<s, timer, irq, calls, hist, nticks, peers, gpio, stub>>

\* The stores of the CPU to the stub devices: every register a write handler
\* names, with values that tell the bits it keeps from those it drops, a
\* register only the read handler names, and an offset no case names.
StubWrites ==
    ({"rng"} \X {NRF51_RNG_START, NRF51_RNG_STOP, NRF51_RNG_VALRDY,
                 NRF51_RNG_VALUE, STUB_BAD_OFFSET} \X {U32(0, 1)})
    \cup ({"rng"} \X {NRF51_RNG_CONFIG} \X {U32(0, 3), U32(0, 2)})
    \cup ({"nvmc"} \X {NRF51_NVMC_CONFIG}
            \X {U32(0, 1), U32(0, 2), U32(43605, 21930)})
    \cup ({"nvmc"} \X {NRF51_NVMC_READY, NRF51_NVMC_ERASEALL} \X {Zero32})
    \cup ({"nvmc"} \X {NRF51_NVMC_ERASEPAGE, NRF51_NVMC_ERASEPCR0,
                       NRF51_NVMC_ERASEUICR, STUB_BAD_OFFSET}
            \X {U32(0, 1)})
    \cup ({"ficr"} \X {NRF51_FICR_CODEPAGESIZE, NRF51_FICR_CODESIZE,
                       STUB_BAD_OFFSET} \X {U32(0, 1024)})
    \cup ({"cpm"} \X {NRF51_CLK_HFCLKSTART, NRF51_CLK_HFCLKSTOP,
                      NRF51_CLK_LFCLKSTART, NRF51_CLK_LFCLKSTOP}
            \X {U32(0, 1), U32(0, 2)})
    \cup ({"cpm"} \X {NRF51_PWR_RAMON}
            \X {U32(3, 3), U32(0, 2), U32(0, 1), U32(65532, 65532), Zero32})
    \cup ({"cpm"} \X {NRF51_CLK_HFCLKSTARTED, NRF51_CLK_LFCLKSRC,
                      STUB_BAD_OFFSET} \X {U32(0, 1)})

\* the loads of the CPU from the stub devices
StubReads ==
    ({"rng"} \X {NRF51_RNG_START, NRF51_RNG_VALRDY, NRF51_RNG_INTEN,
                 NRF51_RNG_CONFIG, NRF51_RNG_VALUE, STUB_BAD_OFFSET})
    \cup ({"nvmc"} \X {NRF51_NVMC_READY, NRF51_NVMC_CONFIG,
                       NRF51_NVMC_ERASEALL, STUB_BAD_OFFSET})
    \cup ({"ficr"} \X {NRF51_FICR_CODEPAGESIZE, NRF51_FICR_CODESIZE,
                       STUB_BAD_OFFSET})
    \cup ({"cpm"} \X {NRF51_CLK_HFCLKSTART, NRF51_CLK_HFCLKSTARTED,
                      NRF51_CLK_LFCLKSTARTED, NRF51_PWR_RAMON,
                      NRF51_CLK_LFCLKSRC, STUB_BAD_OFFSET})

\* the bytes the random source delivers to a read of VALUE
RngBytes == {0, 165, 255}

\* Accesses of the CPU to the stub devices in one behaviour.
MaxStubAccesses == 3

\* the bytes the random source may deliver to a read of the offset
Delivered(dev, offset) ==
    IF dev = "rng" /\ offset = NRF51_RNG_VALUE THEN RngBytes ELSE {0}

\* A read leaves the devices as they were, but for the byte a read of the
\* RNG's VALUE stores, which no handler reads: the accesses are explored from
\* the states with no read pending. No handler of a stub device reads or
\* assigns the state of another: a behaviour accesses one of them.
StubWrite ==
    /\ nwrites < MaxStubAccesses
    /\ io.op # "read"
    /\ \E w \in StubWrites :
          /\ io.dev \in {"none", w[1]}
          /\ StubWriteStep(w[1], w[2], w[3])

StubRead ==
    /\ nwrites < MaxStubAccesses
    /\ io.op # "read"
    /\ \E r \in StubReads : \E byte \in Delivered(r[1], r[2]) :
          /\ io.dev \in {"none", r[1]}
          /\ StubReadStep(r[1], r[2], byte)

StubNext == StubWrite \/ StubRead

SpecStub == InitFrom(Reset, NoControl) /\ [][StubNext]_vars


(***************************************************************************)
(* Properties of the stub devices.                                         *)
(***************************************************************************)
\* the last access was a CPU read of the register of the stub device, and
\* the access before it a CPU write to the same register
StubReadBack(dev, offset) ==
    /\ io.dev = dev /\ io.op = "read" /\ io.offset = offset
    /\ io.prev.dev = dev /\ io.prev.op = "write" /\ io.prev.offset = offset

\* C33 as stated: a read of RAMON after a write of v to RAMON returns
\* v & 0x00030003.
C33_RamonReadBack ==
    StubReadBack("cpm", NRF51_PWR_RAMON)
        => io.ret = And32(io.prev.value, RamonMask)

\* C33, what the code does: ramon is a bool, so that the read returns 1 when
\* v & 0x00030003 is not 0, and 0 when it is.
C33_RamonIsFlag ==
    StubReadBack("cpm", NRF51_PWR_RAMON)
        => io.ret = FromBool(And32(io.prev.value, RamonMask) # Zero32)

\* RAMON was written 0x00030003 and reads 1
C33_RamonAllOnReadsOne ==
    /\ StubReadBack("cpm", NRF51_PWR_RAMON)
    /\ io.prev.value = U32(3, 3)
    /\ io.ret = U32(0, 1)

\* C34 as stated: a read of CONFIG after a write of v to CONFIG returns v,
\* and a read of READY returns the ready flag of the defaults, 1, whatever
\* was written to the NVMC before.
C34_ConfigReadBack ==
    /\ StubReadBack("nvmc", NRF51_NVMC_CONFIG) => io.ret = io.prev.value
    /\ (io.dev = "nvmc" /\ io.op = "read" /\ io.offset = NRF51_NVMC_READY)
            => io.ret = U32(0, 1)

\* C34, what the code does: the write stores v in config, the read handler
\* has no case for CONFIG and returns 0; READY reads 1.
C34_ConfigReadsZero ==
    /\ (io.dev = "nvmc" /\ io.op = "write" /\ io.offset = NRF51_NVMC_CONFIG)
            => stub.nvmc.config = io.value
    /\ (io.dev = "nvmc" /\ io.op = "read" /\ io.offset = NRF51_NVMC_CONFIG)
            => io.ret = Zero32
    /\ (io.dev = "nvmc" /\ io.op = "read" /\ io.offset = NRF51_NVMC_READY)
            => io.ret = U32(0, 1)
    /\ stub.nvmc.ready = U32(0, 1)

\* CONFIG was written 0xAA55AAAA, the device holds it, and CONFIG reads 0
C34_ConfigLost ==
    /\ StubReadBack("nvmc", NRF51_NVMC_CONFIG)
    /\ io.prev.value = U32(43605, 21930)
    /\ stub.nvmc.config = U32(43605, 21930)
    /\ io.ret = Zero32

\* READY reads 1 after a write to READY
C34_ReadyAfterWrite ==
    /\ StubReadBack("nvmc", NRF51_NVMC_READY)
    /\ io.ret = U32(0, 1)


(***************************************************************************)
(* The machine as a whole: the CPU's accesses to the timer at TIMER0_BASE, *)
(* to the GPIO controller, to the LED matrix and to the stub devices, the  *)
(* ticks of the timer, and the machine reset.                              *)
(***************************************************************************)
\* Accesses, ticks and resets in one behaviour of the machine.
MaxBoardSteps == 3

BoardTimerWrites ==
    {<<NRF51_TIMER_START, U32(0, 1)>>,
     <<NRF51_TIMER_MODE, U32(1, 3)>>,
     <<NRF51_TIMER_COUNT, U32(0, 255)>>,
     <<NRF51_TIMER_CC0, U32(0, 256)>>,
     <<NRF51_TIMER_INTENSET, U32(1, 1)>>,
     <<NRF51_TIMER_BITMODE, U32(0, 2)>>,
     <<NRF51_TIMER_PRESCALER, U32(0, 4)>>,
     <<TIMER_BAD_OFFSET, U32(0, 1)>>}

BoardTimerReads == {NRF51_TIMER_CC0, NRF51_TIMER_MODE, TIMER_BAD_OFFSET}

BoardGpioWrites ==
    {<<NRF51_GPIO_DIR, U32(65535, 65535)>>,
     <<NRF51_GPIO_OUT, U32(0, 8432)>>,
     <<NRF51_GPIO_PIN_CNF0 + 52, U32(3, 1807)>>,
     <<NRF51_GPIO_IN, U32(0, 1)>>,
     <<GPIO_BAD_OFFSET, U32(0, 1)>>}

BoardGpioReads == {NRF51_GPIO_DIR, NRF51_GPIO_IN, GPIO_BAD_OFFSET}

BoardStubWrites ==
    {<<"rng", NRF51_RNG_START, U32(0, 1)>>,
     <<"rng", NRF51_RNG_CONFIG, U32(0, 3)>>,
     <<"rng", NRF51_RNG_VALUE, U32(0, 1)>>,
     <<"rng", STUB_BAD_OFFSET, U32(0, 1)>>,
     <<"nvmc", NRF51_NVMC_CONFIG, U32(0, 2)>>,
     <<"nvmc", STUB_BAD_OFFSET, U32(0, 1)>>,
     <<"ficr", NRF51_FICR_CODESIZE, U32(0, 1024)>>,
     <<"ficr", STUB_BAD_OFFSET, U32(0, 1)>>,
     <<"cpm", NRF51_CLK_HFCLKSTART, U32(0, 1)>>,
     <<"cpm", NRF51_PWR_RAMON, U32(3, 3)>>,
     <<"cpm", STUB_BAD_OFFSET, U32(0, 1)>>}

BoardStubReads ==
    (StubDevices \X {STUB_BAD_OFFSET})
    \cup {<<"rng", NRF51_RNG_VALRDY>>, <<"nvmc", NRF51_NVMC_CONFIG>>,
          <<"ficr", NRF51_FICR_CODESIZE>>, <<"cpm", NRF51_PWR_RAMON>>}

\* A read leaves the devices as they were: the steps of the machine are
\* explored from the states with no read pending.
BoardReady ==
    /\ nwrites + nticks < MaxBoardSteps
    /\ io.op # "read"
    /\ rd = NoRead

BoardTimerWrite ==
    BoardReady /\ \E w \in BoardTimerWrites : WriteStep(w[1], w[2])

BoardTimerRead ==
    BoardReady /\ \E offset \in BoardTimerReads : ReadStep(offset)

BoardTimerTick == BoardReady /\ TickStep

BoardGpioWrite ==
    BoardReady /\ \E w \in BoardGpioWrites : GpioWriteStep(w[1], w[2])

BoardGpioRead ==
    BoardReady /\ \E offset \in BoardGpioReads : GpioReadStep(offset)

BoardLedWrite == BoardReady /\ LedWriteStep(U32(0, 16320))

BoardStubWrite ==
    BoardReady /\ \E w \in BoardStubWrites : StubWriteStep(w[1], w[2], w[3])

BoardStubRead ==
    BoardReady /\ \E r \in BoardStubReads : StubReadStep(r[1], r[2], 0)

MachineReset == BoardReady /\ MachineResetStep

BoardNext ==
    \/ BoardTimerWrite \/ BoardTimerRead \/ BoardTimerTick
    \/ BoardGpioWrite \/ BoardGpioRead \/ BoardLedWrite
    \/ BoardStubWrite \/ BoardStubRead
    \/ MachineReset

SpecBoard == InitFrom(Reset, NoControl) /\ [][BoardNext]_vars


(***************************************************************************)
(* Properties of the accesses no case names, and of the machine reset.     *)
(***************************************************************************)
\* the offsets with a case other than the default in the handlers of the
\* timer, and in the read and the write handler of the GPIO controller
TimerCases == ReadOffsets \ {TIMER_BAD_OFFSET}
GpioReadCases ==
    OutOffsets \cup DirOffsets \cup PinCnfOffsets \cup {NRF51_GPIO_IN}
GpioWriteCases == OutOffsets \cup DirOffsets \cup PinCnfOffsets

\* C31: a read at an offset for which the read handler of the device has no
\* case returns 0 and leaves the device as it was, and a write at an offset
\* for which its write handler has no case (GPIO IN is one) leaves the whole
\* device, and the LED matrix behind the GPIO controller, as it was; this for
\* the GPIO controller, the timer, the RNG, the NVMC, the FICR and the
\* CLOCK/POWER block.
C31_GuestErrors ==
    [][/\ (io'.dev = "gpio" /\ io'.op = "write"
                /\ io'.offset \notin GpioWriteCases)
            => (gpio' = gpio /\ led' = led /\ io'.stores = <<>>)
       /\ (io'.dev = "gpio" /\ io'.op = "read"
                /\ io'.offset \notin GpioReadCases)
            => (io'.ret = Zero32 /\ gpio' = gpio /\ led' = led)
       /\ (io'.dev \in StubDevices /\ io'.op = "write"
                /\ io'.offset \notin StubWriteCases(io'.dev))
            => stub' = stub
       /\ (io'.dev \in StubDevices /\ io'.op = "read"
                /\ io'.offset \notin StubReadCases(io'.dev))
            => (io'.ret = Zero32 /\ stub' = stub)
       /\ (last'.op = "write" /\ last'.offset \notin TimerCases)
            => (s' = s /\ timer' = timer /\ irq' = irq)
       /\ (rd'.offset # -1 /\ rd'.offset \notin TimerCases)
            => (rd'.value = Zero32
                /\ s' = s /\ timer' = timer /\ irq' = irq)]_vars

\* IN of the GPIO controller was written after DIR was set to all ones
C31_Witness ==
    /\ GpioWrote(NRF51_GPIO_IN)
    /\ io.value # Zero32
    /\ io.prev.dev = "gpio" /\ io.prev.op = "write"
    /\ io.prev.offset = NRF51_GPIO_DIR
    /\ gpio.dir = U32(65535, 65535)
    /\ gpio.in = Zero32

\* an unnamed offset of the timer was written while the timer ran
C31_TimerBadWrite ==
    /\ last.op = "write" /\ last.offset = TIMER_BAD_OFFSET
    /\ timer.enabled

\* an unnamed offset of the RNG was read after START was written
C31_RngBadRead ==
    /\ io.dev = "rng" /\ io.op = "read" /\ io.offset = STUB_BAD_OFFSET
    /\ stub.rng.started

\* the machine reset was the last step of the machine
ResetLast == last.op = "reset" /\ io.op = "reset"

\* C32 as stated: after a machine reset the timer is idle with
\* internal_counter, cc[], compare[], inten, mode, bitmode, prescaler and
\* count 0 and pulsed false, the dir mask, the latches and the pin records
\* of the GPIO controller are cleared, and the LED frame is 0.
C32_ResetDefaults ==
    ResetLast =>
        /\ ~timer.enabled
        /\ s.internal_counter = Zero32
        /\ \A i \in Channels : s.cc[i] = Zero32 /\ s.compare[i] = Zero32
        /\ s.inten = 0 /\ s.mode = 0 /\ s.bitmode = 0 /\ s.prescaler = 0
        /\ s.count = Zero32
        /\ ~s.pulsed
        /\ gpio = NRF51GPIOState
        /\ led.led_state = 0

\* C32, what the code does: the reset clears the LED frame and asks for a
\* redraw; the timer, its tick source, the GPIO controller and the stub
\* devices have no reset handler and are left as the reset found them.
C32_ResetClearsLedOnly ==
    /\ ResetLast =>
            /\ led = MICROBITLedMatrixState
            /\ s = pre.s /\ timer = pre.timer
            /\ Masks(gpio) = io.gpio
            /\ stub = io.stub
    /\ [][io'.op = "reset" => (gpio' = gpio /\ peers' = peers)]_vars

\* the timer was started and ticked, and still runs after the reset
C32_TimerRunsAfterReset ==
    /\ ResetLast
    /\ timer.enabled
    /\ s.internal_counter = U32(0, 1)

\* the dir mask of the GPIO controller is all ones after the reset
C32_DirKeptAfterReset ==
    /\ ResetLast
    /\ gpio.dir = U32(65535, 65535)

\* the LED frame was not 0 before the reset
C32_LedCleared ==
    /\ ResetLast
    /\ io.led.led_state # 0
    /\ led.led_state = 0


(***************************************************************************)
(* A COUNT write to a running timer: the 8-bit timer is set up with        *)
(* COUNT=200 and started, ticks a few times, and the CPU writes COUNT      *)
(* again.                                                                  *)
(***************************************************************************)
\* the values of MODE, the ticks before the second COUNT write, and the
\* values it writes: below and above the counter at that time
S35Modes == {0, 1}
S35Presets == {5, 8}
S35Counts == {2, 3, 20}

\* BITMODE=1, MODE=m, COUNT=200, START=1, COUNT=c
S35Script(m, c) ==
    << <<NRF51_TIMER_BITMODE, U32(0, 1)>>,
       <<NRF51_TIMER_MODE, U32(0, m)>>,
       <<NRF51_TIMER_COUNT, U32(0, 200)>>,
       <<NRF51_TIMER_START, U32(0, 1)>>,
       <<NRF51_TIMER_COUNT, U32(0, c)>> >>

S35Write ==
    \E m \in S35Modes, c \in S35Counts :
        /\ nwrites < Len(S35Script(m, c))
        /\ nwrites = 4 => nticks \in S35Presets
        /\ WriteStep(S35Script(m, c)[nwrites + 1][1],
                     S35Script(m, c)[nwrites + 1][2])

\* ticks up to the last preset before the second COUNT write, and after it
\* the ticks of one round of the 8-bit counter and a few more
S35Tick ==
    /\ IF nwrites = 5
       THEN nticks <= s.limit_mask.lo + 5
       ELSE \E k \in S35Presets : nticks < k
    /\ TickStep

S35Next == S35Write \/ S35Tick

SpecS35 == InitFrom(Reset, NoControl) /\ [][S35Next]_vars

\* the tick of the first match after the second COUNT write: tick c when the
\* counter was below c at the write, and c ticks after the wrap otherwise
S35FirstMatch ==
    IF \A k \in S35Presets : k < s.count.lo
    THEN s.count.lo
    ELSE s.limit_mask.lo + 1 + s.count.lo

\* C35: a COUNT write leaves internal_counter as it was; in counter mode it
\* sets count to the value and hands the value to the tick source as the
\* new limit, in timer mode it changes nothing. So after a COUNT write below
\* the counter of a running counter-mode timer, the ticks count on without a
\* match up to limit_mask, wrap to 0, and match count ticks after the wrap.
C35_CountKeepsCounter ==
    /\ Wrote(NRF51_TIMER_COUNT) =>
          /\ s.internal_counter = pre.s.internal_counter
          /\ IF pre.s.mode = 1
             THEN /\ s = [pre.s EXCEPT !.count = last.value]
                  /\ Recalibrated
                  /\ timer = [pre.timer EXCEPT !.limit = last.value]
             ELSE s = pre.s /\ timer = pre.timer /\ calls = <<>>
    /\ (Ticked /\ nwrites = 5 /\ s.mode = 1) =>
          /\ nticks < S35FirstMatch =>
                /\ AllPulses = 0
                /\ s.internal_counter =
                      U32(0, nticks % (s.limit_mask.lo + 1))
          /\ nticks = S35FirstMatch =>
                /\ AllPulses = 1
                /\ Advanced = s.count
                /\ s.internal_counter = Zero32

\* COUNT=3 was written at counter 8, and the first match comes on tick 259,
\* three ticks after the wrap of the 8-bit counter
C35_Witness ==
    /\ Ticked /\ nwrites = 5 /\ s.mode = 1
    /\ s.count = U32(0, 3)
    /\ nticks = 259
    /\ AllPulses = 1
    /\ s.internal_counter = Zero32

\* COUNT was written in timer mode and count is still 0
C35_TimerModeIgnored ==
    /\ Wrote(NRF51_TIMER_COUNT) /\ nwrites = 5
    /\ last.value = U32(0, 3)
    /\ s.mode = 0 /\ s.count = Zero32
    /\ s.internal_counter = U32(0, 8)

\* COUNT=3 was written in counter mode at counter 8
C35_CounterAboveCount ==
    /\ Wrote(NRF51_TIMER_COUNT) /\ nwrites = 5
    /\ s.mode = 1 /\ s.count = U32(0, 3)
    /\ s.internal_counter = U32(0, 8)


(***************************************************************************)
(* The interrupt line at the end of a handler.                             *)
(***************************************************************************)
\* Writes of the CPU in one behaviour that ends with a read.
MaxLineWrites == 1
\* Tick callbacks delivered in one such behaviour.
MaxLineTicks == 2

LineWrite ==
    /\ rd = NoRead
    /\ nwrites < MaxLineWrites
    /\ \E w \in Writes : WriteStep(w[1], w[2])

LineTick ==
    /\ rd = NoRead
    /\ nticks < MaxLineTicks
    /\ TickStep

\* the CPU reads an event register
LineRead ==
    /\ rd = NoRead
    /\ \E offset \in CompareOffsets : ReadStep(offset)

LineNext == LineWrite \/ LineTick \/ LineRead

\* the timer under every write, the ticks and reads of its events
SpecLine == Init /\ [][LineNext]_vars

\* the channels the last tick matched: timer mode, inten bit set, cc equal to
\* the counter the tick produced
Matched ==
    {i \in Channels :
        pre.s.mode = 0 /\ Bit(pre.s.inten, i) = 1 /\ pre.s.cc[i] = Advanced}

\* C37: the interrupt line is low when a write, a tick or a read returns. A
\* tick in timer
\* mode pulses the line (raise, then lower) once for each enabled channel it
\* matches and lowers it for each enabled channel it does not; a tick in
\* counter mode pulses it once on a match and lowers it otherwise; a write
\* makes no call on the line.
C37_LineLowAtBoundary ==
    /\ irq = 0
    /\ \A k \in DOMAIN calls :
          calls[k].fn \in {"qemu_irq_raise", "qemu_irq_pulse",
                           "qemu_irq_lower"} =>
              /\ Ticked
              /\ calls[k].fn # "qemu_irq_raise"
    /\ (Ticked /\ pre.s.mode = 0) =>
          /\ AllPulses = Cardinality(Matched)
          /\ \A i \in Channels :
                Pulses(i) = IF i \in Matched THEN 1 ELSE 0
    /\ (Ticked /\ pre.s.mode = 1) =>
          AllPulses = IF Advanced = pre.s.count THEN 1 ELSE 0

\* a tick matched the four channels at once and left the line low
C37_Witness ==
    /\ Ticked
    /\ Matched = Channels
    /\ AllPulses = 4
    /\ irq = 0


(***************************************************************************)
(* The three timers ticking while the CPU writes and reads a register of   *)
(* the one at TIMER0_BASE. Each tick callback is registered with the       *)
(* device of its own instance.                                             *)
(***************************************************************************)
\* Tick callbacks of the three timers in one behaviour.
MaxS36Ticks == 3

\* the tick source of the timer at TIMER1_BASE or TIMER2_BASE invokes the
\* callback with the device of that instance
PeerTickStep(i) ==
    /\ peers[i].timer.enabled
    /\ peers' = [peers EXCEPT
                    ![i] = nrf51_timer_tick([@ EXCEPT !.calls = <<>>])]
    /\ nticks' = nticks + 1
    /\ UNCHANGED <<s, timer, irq, calls, last, pre, hist, rd, nwrites>>
    /\ UNCHANGED <<gpio, led, io, stub>>

\* the CPU's store to a register of the timer at TIMER0_BASE, noted in
\* hist.sent whatever the register
SentStep(offset, value) ==
    /\ Ran(nrf51_timer_write(Bundle, offset, value))
    /\ last' = [op |-> "write", offset |-> offset, value |-> value]
    /\ hist' = [hist EXCEPT !.sent = [offset |-> offset, value |-> value],
                            !.hits = 0]
    /\ rd' = NoRead
    /\ nwrites' = nwrites + 1
    /\ UNCHANGED <<nticks, gpio, led, io, stub, peers>>

\* the registers a tick must leave alone, with values that carry bits above
\* the field and values of cc that the running counter reaches
S36Writes ==
    ({NRF51_TIMER_CC0, NRF51_TIMER_CC3}
        \X {U32(0, 255), U32(0, 65535), U32(65535, 65535)})
    \cup ({NRF51_TIMER_MODE} \X {U32(1, 3), U32(0, 2)})
    \cup ({NRF51_TIMER_BITMODE} \X {U32(0, 2), U32(1, 7)})
    \cup ({NRF51_TIMER_PRESCALER} \X {U32(0, 4), U32(0, 255)})

S36Offsets == {w[1] : w \in S36Writes}

\* INTENSET with the four channel bits, then one of the writes
S36Write ==
    /\ rd = NoRead
    /\ \/ nwrites = 0
          /\ WriteStep(NRF51_TIMER_INTENSET, U32(65535, 65535))
       \/ nwrites = 1
          /\ \E w \in S36Writes : SentStep(w[1], w[2])

S36Tick ==
    /\ rd = NoRead
    /\ nticks < MaxS36Ticks
    /\ TickStep

S36PeerTick ==
    /\ rd = NoRead
    /\ nticks < MaxS36Ticks
    /\ \E i \in Peers : PeerTickStep(i)

\* the CPU reads the register it wrote
S36Read ==
    /\ rd = NoRead
    /\ hist.sent.offset \in S36Offsets
    /\ ReadStep(hist.sent.offset)

S36Next == S36Write \/ S36Tick \/ S36PeerTick \/ S36Read

\* the three timers running, two ticks before the wrap of their counters
SpecS36 ==
    /\ \E b \in 0 .. 1 :
          InitWith(Warm(b), [NoControl EXCEPT !.ctl = NRF51_TIMER_START],
                   [i \in Peers |-> Warm(i - 1)])
    /\ [][S36Next]_vars

\* the fields of the device a tick leaves alone
Settings(st) ==
    [cc |-> st.cc, inten |-> st.inten, mode |-> st.mode,
     bitmode |-> st.bitmode, prescaler |-> st.prescaler, count |-> st.count,
     limit_mask |-> st.limit_mask, pulsed |-> st.pulsed]

\* the device but for the two fields a tick assigns
Unticked(st) ==
    [st EXCEPT !.internal_counter = Zero32,
               !.compare = [i \in Channels |-> Zero32]]

\* the value a read of the register returns after the write of value
Kept(offset, value) ==
    CASE offset = NRF51_TIMER_MODE -> U32(0, value.lo % 2)
      [] offset = NRF51_TIMER_BITMODE -> U32(0, value.lo % 4)
      [] offset = NRF51_TIMER_PRESCALER -> U32(0, value.lo % 16)
      [] OTHER -> value

\* C36: a tick of one of the three timers changes internal_counter and
\* compare[] of that timer and pulses or lowers its line, and nothing else:
\* cc[], inten, mode, bitmode, prescaler, count, limit_mask, pulsed and the
\* tick source of that timer, the other two timers, the GPIO controller, the
\* LED matrix and the stub devices are as before. So a read of CC[i], MODE,
\* BITMODE or PRESCALER returns the value the CPU last wrote there, masked to
\* the field, whatever ticks of the three timers came in between.
C36_TickFrame ==
    /\ [][nticks' = nticks + 1 =>
            /\ gpio' = gpio /\ led' = led /\ stub' = stub
            /\ timer' = timer /\ irq' = irq
            /\ Unticked(s') = Unticked(s)
            /\ Settings(s') = Settings(s)
            /\ \A i \in Peers :
                  /\ peers'[i].timer = peers[i].timer
                  /\ peers'[i].irq = peers[i].irq
                  /\ Unticked(peers'[i].s) = Unticked(peers[i].s)
                  /\ Settings(peers'[i].s) = Settings(peers[i].s)
            /\ s' # s => peers' = peers
            /\ \A i, j \in Peers :
                  (i # j /\ peers'[i] # peers[i]) =>
                      (peers'[j] = peers[j] /\ s' = s)]_vars
    /\ [](rd.offset \in S36Offsets =>
            /\ rd.offset = hist.sent.offset
            /\ rd.value = Kept(hist.sent.offset, hist.sent.value))

\* CC0 was written the value the counter reaches, a tick of the timer matched
\* it, another timer ticked as well, and CC0 reads as written
C36_Witness ==
    /\ rd.offset = NRF51_TIMER_CC0
    /\ rd.value = hist.sent.value
    /\ rd.value # Zero32
    /\ s.compare[0] = U32(0, 1)
    /\ \E i \in Peers : peers[i] # Warm(i - 1)

\* PRESCALER was written 0xFF and reads 0xF after three ticks of the timer
C36_PrescalerKept ==
    /\ rd.offset = NRF51_TIMER_PRESCALER
    /\ hist.sent.value = U32(0, 255)
    /\ rd.value = U32(0, 15)
    /\ s.internal_counter # pre.s.internal_counter


(***************************************************************************)
(* The rows of the LED matrix in the frame.                                *)
(***************************************************************************)
Rows == 0 .. 2

\* the bits of frame a that lie in clear_bits of the row
InRow(a, row) == AndBits(a, led_clear_bits(row), 32)

\* C38: an LED write whose row bits name row r changes frame bits of
\* clear_bits[r] only: the bits of the other two rows' masks are as before,
\* and every bit that differs from the old frame lies in clear_bits[r]. The
\* three masks are pairwise disjoint and their union is 0x01FFFFFF, and the
\* frame has no bit outside 0x01FFFFFF in any state.
C38_RowFrame ==
    /\ \A r \in Rows :
          (LedWrote /\ RowBits = 2 ^ r) =>
              /\ \A q \in Rows \ {r} :
                    InRow(led.led_state, q) = InRow(io.led.led_state, q)
              /\ \A k \in 0 .. 30 :
                    Bit(led.led_state, k) # Bit(io.led.led_state, k) =>
                        Bit(led_clear_bits(r), k) = 1
    /\ \A r, q \in Rows : r # q => InRow(led_clear_bits(r), q) = 0
    /\ OrBits(OrBits(led_clear_bits(0), led_clear_bits(1), 32),
              led_clear_bits(2), 32) = MICROBIT_LED_MAP_MASK
    /\ led.led_state <= MICROBIT_LED_MAP_MASK
    /\ AndBits(led.led_state, MICROBIT_LED_MAP_MASK, 32) = led.led_state

\* a write of row 1 with every column driven, the two whose table entry is
\* (5,5) included, over a frame with LEDs of rows 0 and 2 lit: row 1 is lit
\* and the LEDs of rows 0 and 2 are as before
C38_Witness ==
    /\ LedWrote /\ io.value = U32(0, 16384)
    /\ InRow(io.led.led_state, 0) # 0
    /\ InRow(io.led.led_state, 2) # 0
    /\ InRow(io.led.led_state, 1) = 0
    /\ InRow(led.led_state, 1) = led_clear_bits(1)
    /\ InRow(led.led_state, 0) = InRow(io.led.led_state, 0)
    /\ InRow(led.led_state, 2) = InRow(io.led.led_state, 2)


(***************************************************************************)
(* The output registers with the latch at 0, and a write to OUT against a  *)
(* write to LED_BASE.                                                      *)
(***************************************************************************)
\* the GPIO controller and the LED matrix as the last output write found
\* them: an output write leaves dir and the pins as they are
Found ==
    [gpio |-> [gpio EXCEPT !.out = io.gpio.out], led |-> io.led,
     stores |-> <<>>]

\* the GPIO controller, the LED matrix and the stores the last write made
Left == [gpio |-> gpio, led |-> led, stores |-> io.stores]

\* C39: an output write finds the latch at 0. A write to OUTCLR then makes
\* no store to the LED matrix and leaves the LED matrix and the controller
\* as they were, whatever the value and dir; a write of v to OUTSET leaves
\* the controller and the LED matrix, and makes the stores, as a write of v
\* to OUT would, and a write of v to OUT as a write of v to OUTSET would.
C39_LatchAtZero ==
    /\ OutWrote => io.gpio.out = Zero32
    /\ GpioWrote(NRF51_GPIO_OUTCLR) =>
          /\ io.stores = <<>>
          /\ led = io.led
          /\ Left = Found
    /\ GpioWrote(NRF51_GPIO_OUTSET) => Left = gpio_OUT(Found, io.value)
    /\ GpioWrote(NRF51_GPIO_OUT) => Left = gpio_OUTSET(Found, io.value)

\* OUTCLR = 0 with every pin an output, after an OUT write that lit LEDs:
\* no store, the LEDs stay lit
C39_Witness ==
    /\ GpioWrote(NRF51_GPIO_OUTCLR)
    /\ io.value = Zero32
    /\ io.gpio.dir = U32(65535, 65535)
    /\ io.prev.op = "write" /\ io.prev.offset = NRF51_GPIO_OUT
    /\ io.prev.stores # <<>>
    /\ io.stores = <<>>
    /\ led.led_state # 0

\* OUTSET = 0x00004010 reaches the LED matrix as OUT = 0x00004010 would
C39_OutsetStores ==
    /\ GpioWrote(NRF51_GPIO_OUTSET)
    /\ io.value = U32(0, 16400)
    /\ io.stores = << [addr |-> LED_BASE, val |-> U32(0, 16400)] >>
    /\ led # io.led

\* C40: a write of v to OUT with (v & dir & 0x0000FFF0) # 0 leaves the LED
\* matrix, frame and redraw events, as a write of v & dir to LED_BASE
\* leaves it, and has done so when the write returns.
C40_OutAsLedWrite ==
    (GpioWrote(NRF51_GPIO_OUT)
        /\ OnLedBus(And32(io.value, io.gpio.dir)) # Zero32) =>
        /\ led = microbit_led_matrix_write(io.led,
                                           And32(io.value, io.gpio.dir))
        /\ Len(io.stores) = 1

\* OUT = 0xFFFFFFFF under dir = 0x000020C0: v & dir, with bits of v outside
\* dir and a column field of its own, lights row 0 as 0x000020C0 written to
\* LED_BASE does
C40_Witness ==
    /\ GpioWrote(NRF51_GPIO_OUT)
    /\ io.value = U32(65535, 65535)
    /\ io.gpio.dir = U32(0, 8384)
    /\ led = microbit_led_matrix_write(io.led, U32(0, 8384))
    /\ led.led_state # io.led.led_state

\* OUT = 0x000020F0 with every pin an output
C40_ColumnsReachLeds ==
    /\ GpioWrote(NRF51_GPIO_OUT)
    /\ io.value = U32(0, 8432)
    /\ io.gpio.dir = U32(65535, 65535)
    /\ led = microbit_led_matrix_write(io.led, U32(0, 8432))
    /\ led # microbit_led_matrix_write(io.led, U32(0, 8192))
=============================================================================
